---------------------------- MODULE Spec2Model ----------------------------
(***************************************************************************)
(* A model of the graph-calculation engine of eejx / ee_mvp: the load      *)
(* roll-up (eejx/analysis/load_calc.py), the per-path voltage drop         *)
(* (eejx/analysis/voltage_drop.py), the validator pipeline                 *)
(* (eejx/validate/core.py) and the feeder-tap check (ee_mvp/taps.py).      *)
(*                                                                         *)
(* Python values are encoded as follows.                                   *)
(*   Optional[T]   : <<>> is None, <<v>> is the value v.                   *)
(*   dict          : a function whose DOMAIN is the set of keys; where the *)
(*                   code iterates a dict, the key order is a sequence.    *)
(*   str (ids)     : TLA+ strings; Text(s) spells the characters of s for  *)
(*                   the substring test of the schedule matching.          *)
(*   kVA           : integers counting sixteenths of a kVA, so that the    *)
(*                   factor 1.25 and the division by a power factor of     *)
(*                   1, 0.8 or 0.5 are exact.                              *)
(***************************************************************************)
EXTENDS Integers, Sequences, FiniteSets, TLC

VARIABLES
    nodes,            \* graph.nodes: sequence of node records
    edges,            \* graph.edges: sequence of edge records
    panel_schedules,  \* graph.panel_schedules: sequence of schedules
    pc,               \* position of the running analysis
    base_loads,       \* run_load_calc: base_loads dict
    indegree,         \* _topological_order: indegree dict
    queue,            \* _topological_order: the deque
    order,            \* _topological_order: the order list
    pending,          \* run_load_calc: the part of reversed(order) not yet rolled up
    aggregated,       \* run_load_calc: aggregated dict
    analysis_flags,   \* graph.analysis_flags
    short_circuit,    \* graph.short_circuit
    issues,           \* validate_project: the issues list
    vidx,             \* validate_project: index of the next validator
    load_results,     \* run_voltage_drop: the load_results argument
    per_edge,         \* run_voltage_drop: per_edge, by edge position
    per_path,         \* run_voltage_drop: per_path dict
    memo,             \* run_voltage_drop: memo dict
    stack,            \* run_voltage_drop: the active calls of accumulate
    node_idx,         \* run_voltage_drop: position of the final loop
    load_currents,    \* check_feeder_taps: the load_currents argument
    rows,             \* check_feeder_taps: rows
    edge_idx,         \* check_feeder_taps: position of the loop over edges
    data,             \* cli: the parsed JSON document; the dump of a graph
    project_graph,    \* cli: the loaded ProjectGraph instance
    exit_code,        \* cli: the code of typer.Exit, or of the interpreter
    z_map,            \* available_fault: z_map dict
    seen_edges,       \* available_fault: seen, the set of traversed (from, to) keys
    args,             \* the arguments of a formula-library call
    results           \* the value returned by the analysis

graphVars == <<nodes, edges, panel_schedules, analysis_flags, short_circuit,
               load_results, load_currents>>
lcVars == <<base_loads, indegree, queue, order, pending, aggregated>>
valVars == <<issues, vidx>>
vdVars == <<per_edge, per_path, memo, stack, node_idx>>
tapVars == <<rows, edge_idx>>
cliVars == <<data, project_graph, exit_code>>
sccVars == <<z_map, seen_edges>>
\* what run_load_calc does not touch
nonLoadVars == <<valVars, vdVars, tapVars, cliVars, sccVars, args>>
\* what validate_project does not touch
nonValVars == <<lcVars, vdVars, tapVars, cliVars, sccVars, args>>
\* what run_voltage_drop does not touch
nonVdVars == <<lcVars, valVars, tapVars, cliVars, sccVars, args>>
\* what check_feeder_taps does not touch
nonTapVars == <<lcVars, valVars, vdVars, cliVars, sccVars, args>>
vars == <<nodes, edges, panel_schedules, analysis_flags, short_circuit, pc,
          base_loads, indegree, queue, order, pending, aggregated,
          issues, vidx, load_results, per_edge, per_path, memo, stack,
          node_idx, load_currents, rows, edge_idx, results,
          data, project_graph, exit_code, z_map, seen_edges, args>>

---------------------------------------------------------------------------
(* Generic helpers                                                         *)

None == <<>>
Some(v) == <<v>>
IsNone(x) == x = <<>>
Val(x) == x[1]

Range(s) == {s[i] : i \in 1..Len(s)}

SeqsUpTo(S, n) == UNION {[1..k -> S] : k \in 0..n}

RECURSIVE Reverse(_)
Reverse(s) == IF s = <<>> THEN <<>> ELSE Append(Reverse(Tail(s)), Head(s))

RECURSIVE SelectIn(_, _)
\* the elements of sequence s that are in set S, in the order of s
SelectIn(s, S) ==
    IF s = <<>> THEN <<>>
    ELSE IF Head(s) \in S THEN <<Head(s)>> \o SelectIn(Tail(s), S)
         ELSE SelectIn(Tail(s), S)

RECURSIVE SumOver(_, _)
\* sum of f[x] over the finite set S
SumOver(f, S) ==
    IF S = {} THEN 0
    ELSE LET x == CHOOSE y \in S : TRUE IN f[x] + SumOver(f, S \ {x})

\* dict.get(key, default)
Get(d, k, default) == IF k \in DOMAIN d THEN d[k] ELSE default

\* d[k] = v on a dict that may not hold k yet
Put(d, k, v) == [x \in DOMAIN d \cup {k} |-> IF x = k THEN v ELSE d[x]]

---------------------------------------------------------------------------
(* Graph model: eejx/schema/models.py                                      *)

Node(id, type, voltage, phases, rating, mlo, load) ==
    [id |-> id, type |-> type, voltage_ll_V |-> voltage, phases |-> phases,
     rating_A |-> rating, mlo |-> mlo, load |-> load]

Edge(from, to, ocpd, cable) ==
    [from_ |-> from, to |-> to, ocpd |-> ocpd, cable |-> cable]

PanelEntry(ckt, desc, kVA, kW, continuous) ==
    [ckt |-> ckt, desc |-> desc, kVA |-> kVA, kW |-> kW, continuous |-> continuous]

PanelSchedule(panel_id, entries) == [panel_id |-> panel_id, entries |-> entries]

NodeIdSet == {nodes[i].id : i \in 1..Len(nodes)}

\* the node record of an id (ids are unique across the graph)
NodeOf(id) == nodes[CHOOSE i \in 1..Len(nodes) : nodes[i].id = id]


\* the characters of the strings the model uses as ids and phase sets
Text(s) ==
    CASE s = "S"   -> <<"S">>
      [] s = "A"   -> <<"A">>
      [] s = "B"   -> <<"B">>
      [] s = "C"   -> <<"C">>
      [] s = "X"   -> <<"X">>
      [] s = "ab"  -> <<"a", "b">>
      [] s = "AB"  -> <<"A", "B">>
      [] s = "BC"  -> <<"B", "C">>
      [] s = "CA"  -> <<"C", "A">>
      [] s = "ABC" -> <<"A", "B", "C">>
      [] s = ""    -> <<>>
      [] s = "Cu"  -> <<"C", "u">>
      [] s = "Al"  -> <<"A", "l">>
      [] s = "panel"   -> <<"p", "a", "n", "e", "l">>
      [] s = "load"    -> <<"l", "o", "a", "d">>
      [] s = "breaker" -> <<"b", "r", "e", "a", "k", "e", "r">>
      [] s = "fuse"    -> <<"f", "u", "s", "e">>
      [] s = "CU"  -> <<"C", "U">>
      [] s = "AL"  -> <<"A", "L">>
      [] s = "EMT" -> <<"E", "M", "T">>
      [] s = "PVC" -> <<"P", "V", "C">>
      [] s = "RMC" -> <<"R", "M", "C">>
      [] s = "pvc" -> <<"p", "v", "c">>
      [] s = "Au"  -> <<"A", "u">>

\* str.upper() on one character
UpperChar(c) ==
    CASE c = "a" -> "A"
      [] c = "b" -> "B"
      [] c = "f" -> "F"
      [] c = "z" -> "Z"
      [] c = "k" -> "K"
      [] c = "c" -> "C"
      [] c = "m" -> "M"
      [] c = "i" -> "I"
      [] c = "l" -> "L"
      [] c = "u" -> "U"
      [] c = "p" -> "P"
      [] c = "v" -> "V"
      [] OTHER   -> c

\* str.upper()
Upper(t) == [i \in 1..Len(t) |-> UpperChar(t[i])]

\* needle in hay (Python's substring test)
Contains(hay, needle) ==
    \E i \in 0..(Len(hay) - Len(needle)) :
        SubSeq(hay, i + 1, i + Len(needle)) = needle

---------------------------------------------------------------------------
(* eejx/analysis/load_calc.py                                              *)

\* value * 1.25 on sixteenths of a kVA
Times125(v) == (v * 5) \div 4

\* _node_base_load_kva: the node's own demand, in sixteenths of a kVA.
\* node.load is None or [kVA, kW, pf, continuous]; pf is given in percent.
NodeBaseLoadKva(node) ==
    IF IsNone(node.load) THEN 0
    ELSE LET load == Val(node.load)
             pf == IF IsNone(load.pf) \/ load.pf = Some(0) THEN 100 ELSE Val(load.pf)
             base == IF ~IsNone(load.kVA) THEN 16 * Val(load.kVA)
                     ELSE IF ~IsNone(load.kW) THEN (16 * Val(load.kW) * 100) \div pf
                     ELSE 0
         IN IF load.continuous = Some(TRUE) THEN Times125(base) ELSE base

\* _entry_kva: the demand of one panel-schedule entry, in sixteenths of a kVA
EntryKva(entry) ==
    IF ~IsNone(entry.kVA)
    THEN IF entry.continuous = Some(TRUE) THEN Times125(16 * Val(entry.kVA))
         ELSE 16 * Val(entry.kVA)
    ELSE IF ~IsNone(entry.kW)
    THEN IF entry.continuous = Some(TRUE) THEN Times125(16 * Val(entry.kW))
         ELSE 16 * Val(entry.kW)
    ELSE 0

RECURSIVE AdjacencyOf(_, _)
\* run_load_calc's adjacency[parent]: the targets of the edges leaving parent,
\* in edge order, whether or not the endpoints are nodes of the graph
AdjacencyOf(es, parent) ==
    IF es = <<>> THEN <<>>
    ELSE IF Head(es).from_ = parent
         THEN <<Head(es).to>> \o AdjacencyOf(Tail(es), parent)
         ELSE AdjacencyOf(Tail(es), parent)

Children(parent) == AdjacencyOf(edges, parent)

RECURSIVE AdjacencyKeysOf(_, _)
\* the keys of run_load_calc's adjacency dict, in insertion order
AdjacencyKeysOf(es, seen) ==
    IF es = <<>> THEN <<>>
    ELSE IF Head(es).from_ \in seen THEN AdjacencyKeysOf(Tail(es), seen)
         ELSE <<Head(es).from_>> \o AdjacencyKeysOf(Tail(es), seen \cup {Head(es).from_})

AdjacencyKeys == AdjacencyKeysOf(edges, {})

\* a mutation of ChildMatches: the entry's text is compared as written
ChildMatchesCaseSensitive(child_id, entry) ==
    LET child_token == Upper(Text(child_id))
    IN /\ child_token # <<>>
       /\ \/ Contains(entry.desc, child_token)
          \/ Contains(entry.ckt, child_token)

\* the test of line 99: the child's upper-cased id occurs in the entry's text
ChildMatches(child_id, entry) ==
    LET child_token == Upper(Text(child_id))
    IN /\ child_token # <<>>
       /\ \/ Contains(Upper(entry.desc), child_token)
          \/ Contains(Upper(entry.ckt), child_token)

RECURSIVE LastMatch(_, _)
\* a variant of lines 97-102 without the break of line 102: the last child
\* in edge order that matches is the one the entry goes to
LastMatch(children, entry) ==
    IF children = <<>> THEN None
    ELSE IF ChildMatches(children[Len(children)], entry)
         THEN Some(children[Len(children)])
         ELSE LastMatch(SubSeq(children, 1, Len(children) - 1), entry)

RECURSIVE FirstMatch(_, _)
\* the child the loop of lines 97-102 assigns the entry to: Some(child) for the
\* first child in edge order that matches, None when the loop ends unassigned
FirstMatch(children, entry) ==
    IF children = <<>> THEN None
    ELSE IF ChildMatches(Head(children), entry) THEN Some(Head(children))
         ELSE FirstMatch(Tail(children), entry)

\* one iteration of the entry loop (lines 90-104) on st = [bl, pil], the
\* base_loads and panel_internal_loads dicts
AssignEntry(st, parent_id, entry) ==
    LET value == EntryKva(entry)
        hit == FirstMatch(Children(parent_id), entry)
    IN IF value = 0 THEN st
       ELSE IF ~IsNone(hit)
            THEN [st EXCEPT !.bl = Put(st.bl, Val(hit), Get(st.bl, Val(hit), 0) + value)]
            ELSE [st EXCEPT !.pil = Put(st.pil, parent_id, Get(st.pil, parent_id, 0) + value)]

RECURSIVE AssignEntries(_, _, _)
AssignEntries(st, parent_id, entries) ==
    IF entries = <<>> THEN st
    ELSE AssignEntries(AssignEntry(st, parent_id, Head(entries)), parent_id, Tail(entries))

RECURSIVE AssignSchedules(_, _)
\* the schedule loop, lines 87-104
AssignSchedules(st, schedules) ==
    IF schedules = <<>> THEN st
    ELSE AssignSchedules(AssignEntries(st, Head(schedules).panel_id, Head(schedules).entries),
                         Tail(schedules))

\* lines 84-107: base_loads after the schedules are distributed and the
\* panels' internal loads are added back
BaseLoads ==
    LET bl0 == [id \in NodeIdSet |-> NodeBaseLoadKva(NodeOf(id))]
        st == AssignSchedules([bl |-> bl0, pil |-> <<>>], panel_schedules)
    IN [id \in DOMAIN st.bl \cup DOMAIN st.pil |->
            Get(st.bl, id, 0) + Get(st.pil, id, 0)]

\* graph.nodes as the list of their ids, the key order of the indegree dict
NodeIds == [i \in 1..Len(nodes) |-> nodes[i].id]

\* the test of line 47: the edge takes part in the topological order
EdgeCounts(e) == e.from_ \in NodeIdSet /\ e.to \in NodeIdSet

RECURSIVE TopoAdjacencyOf(_, _)
\* _topological_order's adjacency[node_id]: only edges between nodes of the graph
TopoAdjacencyOf(es, node_id) ==
    IF es = <<>> THEN <<>>
    ELSE IF EdgeCounts(Head(es)) /\ Head(es).from_ = node_id
         THEN <<Head(es).to>> \o TopoAdjacencyOf(Tail(es), node_id)
         ELSE TopoAdjacencyOf(Tail(es), node_id)

TopoAdjacency(node_id) == TopoAdjacencyOf(edges, node_id)

\* lines 44-50: the indegree dict before the loop
InitialIndegree ==
    [id \in NodeIdSet |->
        Cardinality({i \in 1..Len(edges) : EdgeCounts(edges[i]) /\ edges[i].to = id})]

\* line 51: the nodes of indegree zero, in dict order
InitialQueue == SelectSeq(NodeIds, LAMBDA id : InitialIndegree[id] = 0)

RECURSIVE RelaxUnguarded(_, _)
\* a mutation of Relax: the neighbour is queued while its indegree is not
\* negative, not only when it reaches zero
RelaxUnguarded(st, nbrs) ==
    IF nbrs = <<>> THEN st
    ELSE LET nbr == Head(nbrs)
             deg == st.indegree[nbr] - 1
             st1 == [indegree |-> [st.indegree EXCEPT ![nbr] = deg],
                     queue |-> IF deg >= 0 THEN Append(st.queue, nbr) ELSE st.queue]
         IN RelaxUnguarded(st1, Tail(nbrs))

RECURSIVE Relax(_, _)
\* lines 56-59 on st = [indegree, queue]: one decrement per outgoing edge, the
\* neighbour being queued when its indegree reaches zero
Relax(st, nbrs) ==
    IF nbrs = <<>> THEN st
    ELSE LET nbr == Head(nbrs)
             deg == st.indegree[nbr] - 1
             st1 == [indegree |-> [st.indegree EXCEPT ![nbr] = deg],
                     queue |-> IF deg = 0 THEN Append(st.queue, nbr) ELSE st.queue]
         IN Relax(st1, Tail(nbrs))

\* line 110-111: the fallback when the order is empty
OrderOrFallback(ord) == IF ord = <<>> THEN NodeIds ELSE ord

\* a mutation of RollUpOrder: the roll-up walks the order front to back
RollUpOrderForward(ord) == ord

\* line 114: the roll-up walks reversed(order)
RollUpOrder(ord) == Reverse(ord)

RECURSIVE RollUpInto(_, _, _)
\* lines 115-117 for one node_id: every parent whose child list holds node_id
\* receives the node's current aggregate, parents taken in dict order
RollUpInto(agg, node_id, parents) ==
    IF parents = <<>> THEN agg
    ELSE LET parent == Head(parents)
             agg1 == IF node_id \in Range(Children(parent))
                     THEN Put(agg, parent, Get(agg, parent, 0) + Get(agg, node_id, 0))
                     ELSE agg
         IN RollUpInto(agg1, node_id, Tail(parents))

\* _phase_count
PhaseCount(node) ==
    IF IsNone(node.phases) \/ node.phases = Some("") THEN 3
    ELSE Len(Text(Val(node.phases)))

\* _voltage_for_current: None, or the voltage with a flag telling that it is
\* the line-to-line voltage divided by sqrt(3)
VoltageForCurrent(node) ==
    IF ~IsNone(node.voltage_ll_V) /\ Val(node.voltage_ll_V) # 0
    THEN Some([volts |-> Val(node.voltage_ll_V), over_root3 |-> PhaseCount(node) = 1])
    ELSE None

\* lines 123-130: the current of a node, kept exact as num / den amperes
\* multiplied (root3 = "num") or divided (root3 = "den") by sqrt(3);
\* kva is in sixteenths of a kVA
CurrentOf(node_id, kva) ==
    IF node_id \notin NodeIdSet THEN None
    ELSE LET voltage == VoltageForCurrent(NodeOf(node_id))
         IN IF ~IsNone(voltage) /\ Val(voltage).volts > 0
            THEN Some([num |-> kva * 1000, den |-> 16 * Val(voltage).volts,
                       root3 |-> IF PhaseCount(NodeOf(node_id)) = 1 THEN "num" ELSE "den"])
            ELSE None

\* the margin computed with a current of 0 A where the current is unknown
MarginWithoutCurrent(node_id, current) ==
    IF node_id \notin NodeIdSet THEN None
    ELSE LET rating == NodeOf(node_id).rating_A
         IN IF ~IsNone(rating)
            THEN Some([rating |-> Val(rating),
                       minus |-> IF IsNone(current) THEN [num |-> 0, den |-> 1, root3 |-> "den"]
                                 ELSE Val(current)])
            ELSE None
\* lines 131-134: rating - current, kept as the pair it is computed from
MarginOf(node_id, current) ==
    IF node_id \notin NodeIdSet THEN None
    ELSE LET rating == NodeOf(node_id).rating_A
         IN IF ~IsNone(current) /\ ~IsNone(rating)
            THEN Some([rating |-> Val(rating), minus |-> Val(current)])
            ELSE None

\* lines 119-141
LoadResults(agg) ==
    [node_id \in DOMAIN agg |->
        [kVA_total |-> agg[node_id],
         I_A |-> CurrentOf(node_id, agg[node_id]),
         margin_A |-> MarginOf(node_id, CurrentOf(node_id, agg[node_id]))]]

\* run_load_calc, lines 80-107 and the set-up of _topological_order
LC_Start ==
    /\ pc = "start"
    /\ base_loads' = BaseLoads
    /\ indegree' = InitialIndegree
    /\ queue' = InitialQueue
    /\ order' = <<>>
    /\ pc' = "kahn"
    /\ UNCHANGED <<graphVars, nonLoadVars, pending, aggregated, results>>

\* one iteration of the while loop of _topological_order, lines 53-59
LC_Dequeue ==
    /\ pc = "kahn"
    /\ queue # <<>>
    /\ LET node_id == Head(queue)
           st == Relax([indegree |-> indegree, queue |-> Tail(queue)],
                       TopoAdjacency(node_id))
       IN /\ order' = Append(order, node_id)
          /\ indegree' = st.indegree
          /\ queue' = st.queue
    /\ UNCHANGED <<graphVars, nonLoadVars, pc, base_loads, pending, aggregated, results>>

\* the loop ends: lines 60 and 109-113
LC_Ordered ==
    /\ pc = "kahn"
    /\ queue = <<>>
    /\ order' = OrderOrFallback(order)
    /\ pending' = RollUpOrder(OrderOrFallback(order))
    /\ aggregated' = base_loads
    /\ pc' = "rollup"
    /\ UNCHANGED <<graphVars, nonLoadVars, base_loads, indegree, queue, results>>

\* one iteration of the roll-up loop, lines 114-117
LC_RollUp ==
    /\ pc = "rollup"
    /\ pending # <<>>
    /\ aggregated' = RollUpInto(aggregated, Head(pending), AdjacencyKeys)
    /\ pending' = Tail(pending)
    /\ UNCHANGED <<graphVars, nonLoadVars, pc, base_loads, indegree, queue, order, results>>

\* the roll-up ends: lines 119-141
LC_Return ==
    /\ pc = "rollup"
    /\ pending = <<>>
    /\ results' = LoadResults(aggregated)
    /\ pc' = "done"
    /\ UNCHANGED <<graphVars, nonLoadVars, lcVars>>

NextLoad == LC_Start \/ LC_Dequeue \/ LC_Ordered \/ LC_RollUp \/ LC_Return

---------------------------------------------------------------------------
(* Inputs of the load calculation                                          *)

MaxEdges == 3

PlainNode(id, load) == Node(id, "panel", Some(208), Some("ABC"), None, None, load)

Load(kVA, kW, pf, continuous) ==
    Some([kVA |-> kVA, kW |-> kW, pf |-> pf, continuous |-> continuous])

\* three nodes whose own demands (1, 2.5 and 5 kVA) are pairwise different
NodeS == PlainNode("S", Load(Some(1), None, None, None))
NodeA == PlainNode("A", Load(None, Some(2), Some(80), Some(FALSE)))
NodeB == PlainNode("B", Load(Some(4), Some(9), None, Some(TRUE)))

\* "X" is an id no node carries
BareEdges(ids) == {Edge(f, t, None, None) : f \in ids, t \in ids}

AnalysisFlags(load, voltage_drop, sc) ==
    [load |-> load, voltage_drop |-> voltage_drop, short_circuit |-> sc]

\* the flags of the sample project: load and voltage drop on, short circuit off
DefaultContext ==
    /\ analysis_flags = AnalysisFlags(TRUE, TRUE, FALSE)
    /\ short_circuit = None
    /\ load_results = <<>>
    /\ load_currents = <<>>

\* nothing computed yet
InitAnalysis ==
    /\ base_loads = <<>>
    /\ indegree = <<>>
    /\ queue = <<>>
    /\ order = <<>>
    /\ pending = <<>>
    /\ aggregated = <<>>
    /\ issues = <<>>
    /\ vidx = 1
    /\ per_edge = <<>>
    /\ per_path = <<>>
    /\ memo = <<>>
    /\ stack = <<>>
    /\ node_idx = 1
    /\ rows = <<>>
    /\ edge_idx = 1
    /\ results = <<>>
    /\ data = <<>>
    /\ project_graph = <<>>
    /\ exit_code = <<>>
    /\ z_map = <<>>
    /\ seen_edges = {}

\* no call of the formula library is under way
InitLocals == InitAnalysis /\ args = <<>>

InitWork == pc = "start" /\ InitLocals

InitLoad ==
    /\ nodes \in {<<NodeA, NodeB>>, <<NodeS, NodeA, NodeB>>}
    /\ edges \in SeqsUpTo(BareEdges(NodeIdSet \cup {"X"}), MaxEdges)
    /\ panel_schedules = <<>>
    /\ DefaultContext
    /\ InitWork

SpecLoad == InitLoad /\ [][NextLoad]_vars

\* Inputs with panel schedules: a feeder chain S -> A -> B and variations of
\* it, with one schedule of up to MaxEntries entries
MaxEntries == 2

Plain(id, type, load) == Node(id, type, Some(208), Some("ABC"), None, None, load)

SchedNodeLists ==
    {<<Plain("S", "utility_service", None), Plain("A", "panel", None), Plain("B", "panel", load)>>
        : load \in {None, Load(Some(1), None, None, None)}}
    \cup {<<Plain("S", "utility_service", None), Plain("A", "panel", None),
            Plain("ab", "panel", None), Plain("B", "panel", None)>>}

E(f, t) == Edge(f, t, None, None)

SchedEdgeLists ==
    {<<E("S", "A"), E("A", "B")>>,
     <<E("S", "A"), E("A", "B"), E("A", "ab")>>,
     <<E("S", "A"), E("A", "ab"), E("A", "B")>>,
     <<E("S", "A"), E("A", "X"), E("A", "B"), E("A", "B")>>,
     <<E("A", "B"), E("B", "A")>>,
     <<E("S", "B")>>}

\* entry texts: "zb" and "ab" name B once upper-cased, "ab" names A and ab
\* as well, "z" names no node
SchedEntries ==
    {PanelEntry(<<"1">>, <<"z", "b">>, Some(36), None, Some(TRUE)),
     PanelEntry(<<"1">>, <<"z", "b">>, Some(36), Some(9), None),
     PanelEntry(<<"B">>, <<"z">>, None, Some(4), Some(FALSE)),
     PanelEntry(<<"1">>, <<"a", "b">>, Some(8), None, Some(TRUE)),
     PanelEntry(<<"1">>, <<"z">>, Some(2), None, Some(TRUE)),
     PanelEntry(<<"1">>, <<"z", "b">>, Some(0), Some(4), Some(TRUE)),
     PanelEntry(<<"X">>, <<>>, None, None, Some(TRUE))}

InitSched ==
    /\ nodes \in SchedNodeLists
    /\ edges \in SchedEdgeLists
    /\ panel_schedules \in
          {<<>>} \cup {<<PanelSchedule(p, es)>> :
                          p \in {"A", "S", "X"}, es \in SeqsUpTo(SchedEntries, MaxEntries)}
    /\ DefaultContext
    /\ InitWork

SpecSched == InitSched /\ [][NextLoad]_vars

---------------------------------------------------------------------------
(* Graph notions the properties are stated with                            *)

\* the edges whose two endpoints are nodes of the graph, as pairs
ValidPairs == {<<edges[i].from_, edges[i].to>> : i \in {j \in 1..Len(edges) : EdgeCounts(edges[j])}}

RECURSIVE Closure(_, _)
\* the ids reachable from the set S over the pairs in one or more steps
Closure(S, pairs) ==
    LET next == S \cup {p[2] : p \in {q \in pairs : q[1] \in S}}
    IN IF next = S THEN S ELSE Closure(next, pairs)

Descendants(n) == Closure({p[2] : p \in {q \in ValidPairs : q[1] = n}}, ValidPairs)

OnCycle(n) == n \in Descendants(n)
HasCycle == \E n \in NodeIdSet : OnCycle(n)
\* on a cycle or downstream of one: what Kahn's algorithm cannot reach
OnOrBelowCycle(n) == \E m \in NodeIdSet : OnCycle(m) /\ (n = m \/ n \in Descendants(m))

AllEdgesValid == \A i \in 1..Len(edges) : EdgeCounts(edges[i])
HasUnknownEndpoint == ~AllEdgesValid
HasParallelEdges ==
    \E i, j \in 1..Len(edges) :
        i # j /\ edges[i].from_ = edges[j].from_ /\ edges[i].to = edges[j].to

NoDuplicates(s) == \A i, j \in 1..Len(s) : i # j => s[i] # s[j]

IsSuffix(s, t) == Len(s) <= Len(t) /\ s = SubSeq(t, Len(t) - Len(s) + 1, Len(t))

\* the distinct children of a node in run_load_calc's adjacency
ChildSet(n) == Range(Children(n))

---------------------------------------------------------------------------
(* C2: run_load_calc terminates on every finite graph (cycles, self-loops,  *)
(* parallel edges and unknown ids included): every step lowers a rank that  *)
(* the node count bounds, no node is dequeued twice, the roll-up consumes   *)
(* the order once, and the rank is zero only once the call has returned.    *)
NodeCount == Cardinality(NodeIdSet)

\* the number of steps left at most: the Kahn loop has one iteration per node
\* still to be ordered, the roll-up one per node of the order
LoadRank ==
    CASE pc = "start"  -> 2 * NodeCount + 3
      [] pc = "kahn"   -> 2 * NodeCount + 2 - Len(order)
      [] pc = "rollup" -> Len(pending) + 1
      [] pc = "done"   -> 0

C2_Bounded ==
    /\ NoDuplicates(order \o queue)
    /\ Range(order \o queue) \subseteq NodeIdSet
    /\ pc = "rollup" => IsSuffix(pending, RollUpOrder(order))
    /\ LoadRank >= 0
    /\ LoadRank = 0 <=> pc = "done"

C2_LoadCalcTerminates == [][LoadRank' < LoadRank]_vars /\ [](C2_Bounded)

C2_Witness ==
    /\ pc = "done"
    /\ HasCycle
    /\ HasUnknownEndpoint
    /\ HasParallelEdges

(* C4: on a graph with a cycle, every node Kahn's order does not reach ends *)
(* with kVA_total equal to its own base demand, also when every node lies   *)
(* on a cycle.                                                              *)
C4_UnreachedKeepLocalValue ==
    pc = "done" =>
        \A n \in NodeIdSet :
            OnOrBelowCycle(n) => results[n].kVA_total = base_loads[n]

(* C5: on an acyclic graph whose edges all join existing nodes, every       *)
(* node's kVA_total is its base demand plus the final totals of its         *)
(* children, and a node is rolled into its parents only once complete.      *)
C5_RollUpSumsChildren ==
    (~HasCycle /\ AllEdgesValid) =>
        /\ pc = "done" =>
              \A n \in NodeIdSet :
                  results[n].kVA_total =
                      base_loads[n]
                      + SumOver([c \in ChildSet(n) |-> results[c].kVA_total], ChildSet(n))
        /\ (pc = "rollup" /\ pending # <<>>) =>
              LET n == Head(pending)
              IN /\ ChildSet(n) \cap Range(pending) = {}
                 /\ aggregated[n] =
                      base_loads[n]
                      + SumOver([c \in ChildSet(n) |-> aggregated[c]], ChildSet(n))

C5_Witness ==
    /\ pc = "done"
    /\ ~HasCycle /\ AllEdgesValid
    /\ \E a, b, c \in NodeIdSet :
          /\ b \in ChildSet(a) /\ c \in ChildSet(b)
          /\ results[a].kVA_total = base_loads[a] + base_loads[b] + base_loads[c]

(* C6: a schedule entry whose description or circuit text contains the id   *)
(* of a child of the panel (case-insensitive) is added to that child's      *)
(* demand, times 1.25 when continuous; in the chain S -> A -> B where A's   *)
(* schedule has one continuous 36 kVA entry naming B, the kVA_total of B, A *)
(* and S is 45 and B's current at 208 V three-phase is above 90 A.          *)
RECURSIVE GCD(_, _)
GCD(a, b) == IF b = 0 THEN a ELSE GCD(b, a % b)

\* current > amps, for a three-phase current num / (den * sqrt(3)), decided on
\* the squares of the reduced fraction
ThreePhaseCurrentAbove(current, amps) ==
    LET g == GCD(current.num, current.den)
        n == current.num \div g
        dn == current.den \div g
    IN current.root3 = "den" /\ n * n > 3 * amps * amps * dn * dn

\* the entry's text names the id, whatever the case of either
NamedIn(id, entry) ==
    /\ Text(id) # <<>>
    /\ \/ Contains(Upper(entry.desc), Upper(Text(id)))
       \/ Contains(Upper(entry.ckt), Upper(Text(id)))

\* the entry's demand in sixteenths of a kVA: kVA, else kW, times 1.25 when continuous
EntryDemand(entry) ==
    LET v == IF entry.kVA # None THEN Val(entry.kVA)
             ELSE IF entry.kW # None THEN Val(entry.kW) ELSE 0
    IN IF entry.continuous = Some(TRUE) THEN 20 * v ELSE 16 * v

OwnDemand(id) == IF id \in NodeIdSet THEN NodeBaseLoadKva(NodeOf(id)) ELSE 0

IsSampleChain ==
    /\ Len(nodes) = 3
    /\ \A i \in 1..3 : nodes[i].load = None
    /\ edges = <<E("S", "A"), E("A", "B")>>
    /\ Len(panel_schedules) = 1
    /\ panel_schedules[1].panel_id = "A"
    /\ Len(panel_schedules[1].entries) = 1
    /\ LET entry == panel_schedules[1].entries[1]
       IN /\ entry.kVA = Some(36)
          /\ entry.continuous = Some(TRUE)
          /\ NamedIn("B", entry)

C6_EntryGoesToNamedChild ==
    /\ (pc # "start" /\ Len(panel_schedules) = 1 /\ Len(panel_schedules[1].entries) = 1) =>
          LET panel == panel_schedules[1].panel_id
              entry == panel_schedules[1].entries[1]
              named == {c \in ChildSet(panel) : NamedIn(c, entry)}
          IN (named # {} /\ EntryDemand(entry) # 0) =>
                /\ \E c \in named : base_loads[c] = OwnDemand(c) + EntryDemand(entry)
                /\ Cardinality({id \in DOMAIN base_loads : base_loads[id] # OwnDemand(id)}) = 1
    /\ (pc = "done" /\ IsSampleChain) =>
          /\ results["B"].kVA_total = 45 * 16
          /\ results["A"].kVA_total = 45 * 16
          /\ results["S"].kVA_total = 45 * 16
          /\ ThreePhaseCurrentAbove(Val(results["B"].I_A), 90)

C6_Witness ==
    /\ pc = "done"
    /\ IsSampleChain
    /\ results["B"].kVA_total = 720

---------------------------------------------------------------------------
(* eejx/validate/core.py                                                   *)

\* an f-string path such as edges[0].from: root, optional index, field
Path(root, idx, field) == [root |-> root, idx |-> idx, field |-> field]

Issue(severity, code, path) == [severity |-> severity, code |-> code, path |-> path]

OCPD(type, rating) == Some([type |-> type, rating_A |-> rating])

\* size_awg is kept as its characters
Cable(conductor, size_awg, qty, length) ==
    Some([conductor |-> conductor, size_awg |-> size_awg,
          qty_per_phase |-> qty, length_ft |-> length])

RECURSIVE Flatten(_)
\* the concatenation of a sequence of lists
Flatten(ss) == IF ss = <<>> THEN <<>> ELSE Head(ss) \o Flatten(Tail(ss))

\* TopologyValidator, lines 45-62: one ERROR per unknown endpoint
UnknownEndpointIssues ==
    Flatten([i \in 1..Len(edges) |->
        (IF edges[i].from_ \notin NodeIdSet
         THEN <<Issue("ERROR", "TOPOLOGY_UNKNOWN_FROM", Path("edges", Some(i - 1), "from"))>>
         ELSE <<>>)
        \o (IF edges[i].to \notin NodeIdSet
            THEN <<Issue("ERROR", "TOPOLOGY_UNKNOWN_TO", Path("edges", Some(i - 1), "to"))>>
            ELSE <<>>)])

RECURSIVE TV_AdjacencyOf(_, _)
\* lines 64-68: adjacency[node_id] over the edges with two known endpoints
TV_AdjacencyOf(es, node_id) ==
    IF es = <<>> THEN <<>>
    ELSE (IF Head(es).from_ \in NodeIdSet /\ Head(es).to \in NodeIdSet
             /\ Head(es).from_ = node_id
          THEN <<Head(es).to>> ELSE <<>>) \o TV_AdjacencyOf(Tail(es), node_id)

TV_Adjacency(node_id) == TV_AdjacencyOf(edges, node_id)

\* a variant of lines 65-68 that counts an edge whose source is unknown
TV_IndegreeAllEdges ==
    [n \in NodeIdSet |-> Cardinality({i \in 1..Len(edges) : edges[i].to = n})]

\* lines 65-68: indegree over the edges with two known endpoints
TV_Indegree ==
    [n \in NodeIdSet |->
        Cardinality({i \in 1..Len(edges) :
                        edges[i].from_ \in NodeIdSet /\ edges[i].to = n})]

\* line 70: the nodes of indegree 0 in node order
TV_Queue ==
    LET IsRoot(id) == TV_Indegree[id] = 0
    IN SelectSeq([i \in 1..Len(nodes) |-> nodes[i].id], IsRoot)

RECURSIVE TV_Relax(_, _)
\* lines 75-78
TV_Relax(st, nbrs) ==
    IF nbrs = <<>> THEN st
    ELSE LET nbr == Head(nbrs)
             deg == st.indegree[nbr] - 1
             st1 == [indegree |-> [st.indegree EXCEPT ![nbr] = deg],
                     queue |-> IF deg = 0 THEN Append(st.queue, nbr) ELSE st.queue]
         IN TV_Relax(st1, Tail(nbrs))

RECURSIVE TV_Visited(_, _)
\* lines 71-78: the number of nodes Kahn's loop dequeues
TV_Visited(st, visited) ==
    IF st.queue = <<>> THEN visited
    ELSE TV_Visited(TV_Relax([indegree |-> st.indegree, queue |-> Tail(st.queue)],
                             TV_Adjacency(Head(st.queue))),
                    visited + 1)

\* lines 41-91
TopologyValidator ==
    UnknownEndpointIssues
    \o (IF TV_Visited([indegree |-> TV_Indegree, queue |-> TV_Queue], 0)
            # Cardinality(NodeIdSet)
        THEN <<Issue("ERROR", "TOPOLOGY_CYCLE", Path("edges", None, ""))>>
        ELSE <<>>)
\* a float used as a condition: set and not zero
TruthyNumber(x) == ~IsNone(x) /\ Val(x) # 0

Abs(x) == IF x < 0 THEN -x ELSE x

\* math.isclose(a, b, rel_tol=0.05, abs_tol=1e-3) on whole numbers: the
\* absolute tolerance only admits a = b
IsClose(a, b) ==
    LET larger == IF Abs(a) > Abs(b) THEN Abs(a) ELSE Abs(b)
    IN 100 * Abs(a - b) <= 5 * larger \/ a = b

\* set(node.phases) for a non-empty phases string, else the empty set
PhaseSet(node) == IF IsNone(node.phases) THEN {} ELSE Range(Text(Val(node.phases)))

\* a variant of lines 107-125 that reports a voltage mismatch as an ERROR
VoltagePhaseIssuesMismatchIsError(i) ==
    IF edges[i].from_ \notin NodeIdSet \/ edges[i].to \notin NodeIdSet THEN <<>>
    ELSE LET upstream == NodeOf(edges[i].from_)
             downstream == NodeOf(edges[i].to)
         IN (IF /\ TruthyNumber(upstream.voltage_ll_V)
                /\ TruthyNumber(downstream.voltage_ll_V)
                /\ ~IsClose(Val(upstream.voltage_ll_V), Val(downstream.voltage_ll_V))
             THEN <<Issue("ERROR", "VOLTAGE_MISMATCH", Path("edges", Some(i - 1), ""))>>
             ELSE <<>>)
            \o (IF /\ PhaseSet(upstream) # {}
                   /\ PhaseSet(downstream) # {}
                   /\ ~(PhaseSet(downstream) \subseteq PhaseSet(upstream))
                THEN <<Issue("ERROR", "PHASE_INCOMPATIBLE", Path("edges", Some(i - 1), ""))>>
                ELSE <<>>)
\* a variant of line 127 that asks for the upstream phases among the
\* downstream ones
VoltagePhaseIssuesUpstreamSubset(i) ==
    IF edges[i].from_ \notin NodeIdSet \/ edges[i].to \notin NodeIdSet THEN <<>>
    ELSE LET upstream == NodeOf(edges[i].from_)
             downstream == NodeOf(edges[i].to)
         IN (IF /\ TruthyNumber(upstream.voltage_ll_V)
                /\ TruthyNumber(downstream.voltage_ll_V)
                /\ ~IsClose(Val(upstream.voltage_ll_V), Val(downstream.voltage_ll_V))
             THEN <<Issue("WARNING", "VOLTAGE_MISMATCH", Path("edges", Some(i - 1), ""))>>
             ELSE <<>>)
            \o (IF /\ PhaseSet(upstream) # {}
                   /\ PhaseSet(downstream) # {}
                   /\ ~(PhaseSet(upstream) \subseteq PhaseSet(downstream))
                THEN <<Issue("ERROR", "PHASE_INCOMPATIBLE", Path("edges", Some(i - 1), ""))>>
                ELSE <<>>)

\* VoltagePhaseValidator, lines 101-138: the issues of the edge at position i
VoltagePhaseIssues(i) ==
    IF edges[i].from_ \notin NodeIdSet \/ edges[i].to \notin NodeIdSet THEN <<>>
    ELSE LET upstream == NodeOf(edges[i].from_)
             downstream == NodeOf(edges[i].to)
         IN (IF /\ TruthyNumber(upstream.voltage_ll_V)
                /\ TruthyNumber(downstream.voltage_ll_V)
                /\ ~IsClose(Val(upstream.voltage_ll_V), Val(downstream.voltage_ll_V))
             THEN <<Issue("WARNING", "VOLTAGE_MISMATCH", Path("edges", Some(i - 1), ""))>>
             ELSE <<>>)
            \o (IF /\ PhaseSet(upstream) # {}
                   /\ PhaseSet(downstream) # {}
                   /\ ~(PhaseSet(downstream) \subseteq PhaseSet(upstream))
                THEN <<Issue("ERROR", "PHASE_INCOMPATIBLE", Path("edges", Some(i - 1), ""))>>
                ELSE <<>>)

\* lines 97-139
VoltagePhaseValidator == Flatten([i \in 1..Len(edges) |-> VoltagePhaseIssues(i)])

\* PanelProtectionValidator, lines 149-151: the positions of the edges into
\* a node, ascending
IncomingEdges(node_id) ==
    LET IsIncoming(i) == edges[i].to = node_id
    IN SelectSeq([i \in 1..Len(edges) |-> i], IsIncoming)

\* one issue per incoming edge that has no OCPD
MissingOcpdIssues(node_id, severity, code) ==
    LET incoming == IncomingEdges(node_id)
    IN Flatten([k \in 1..Len(incoming) |->
           IF IsNone(edges[incoming[k]].ocpd)
           THEN <<Issue(severity, code, Path("edges", Some(incoming[k] - 1), "ocpd"))>>
           ELSE <<>>])

\* a variant of lines 153-180 that takes an unset mlo for an MLO panel
PanelIssuesUnsetIsMlo(node) ==
    IF node.type # "panel" THEN <<>>
    ELSE IF node.mlo = Some(FALSE)
         THEN MissingOcpdIssues(node.id, "WARNING", "MISSING_OCPD")
         ELSE MissingOcpdIssues(node.id, "ERROR", "MLO_REQUIRES_OCPD")

\* lines 153-180: the issues of one node
PanelIssues(node) ==
    IF node.type # "panel" THEN <<>>
    ELSE IF node.mlo = Some(FALSE) \/ IsNone(node.mlo)
         THEN MissingOcpdIssues(node.id, "WARNING", "MISSING_OCPD")
         ELSE MissingOcpdIssues(node.id, "ERROR", "MLO_REQUIRES_OCPD")

\* lines 145-181
PanelProtectionValidator == Flatten([i \in 1..Len(nodes) |-> PanelIssues(nodes[i])])

\* AMPACITY_TABLE, keyed by conductor and by the characters of the size
AMPACITY_TABLE ==
    [Cu |-> (<<"#", "1", "4">> :> 20) @@ (<<"#", "1", "2">> :> 25) @@ (<<"#", "1", "0">> :> 35)
            @@ (<<"#", "8">> :> 50) @@ (<<"#", "6">> :> 65) @@ (<<"#", "4">> :> 85)
            @@ (<<"#", "3">> :> 100) @@ (<<"#", "2">> :> 115) @@ (<<"#", "1">> :> 130)
            @@ (<<"1", "/", "0">> :> 150) @@ (<<"2", "/", "0">> :> 175)
            @@ (<<"3", "/", "0">> :> 200) @@ (<<"4", "/", "0">> :> 230)
            @@ (<<"2", "5", "0">> :> 255) @@ (<<"3", "0", "0">> :> 285)
            @@ (<<"3", "5", "0">> :> 310) @@ (<<"4", "0", "0">> :> 335)
            @@ (<<"5", "0", "0">> :> 380),
     Al |-> (<<"#", "1", "2">> :> 20) @@ (<<"#", "1", "0">> :> 30) @@ (<<"#", "8">> :> 40)
            @@ (<<"#", "6">> :> 50) @@ (<<"#", "4">> :> 65) @@ (<<"#", "3">> :> 75)
            @@ (<<"#", "2">> :> 90) @@ (<<"#", "1">> :> 100)
            @@ (<<"1", "/", "0">> :> 120) @@ (<<"2", "/", "0">> :> 135)
            @@ (<<"3", "/", "0">> :> 155) @@ (<<"4", "/", "0">> :> 180)
            @@ (<<"2", "5", "0">> :> 205) @@ (<<"3", "0", "0">> :> 230)
            @@ (<<"3", "5", "0">> :> 250) @@ (<<"4", "0", "0">> :> 270)
            @@ (<<"5", "0", "0">> :> 310)]

RECURSIVE Strip(_)
\* str.strip(): leading and trailing blanks removed
Strip(t) ==
    IF t = <<>> THEN t
    ELSE IF Head(t) = " " THEN Strip(Tail(t))
    ELSE IF t[Len(t)] = " " THEN Strip(SubSeq(t, 1, Len(t) - 1))
    ELSE t

RECURSIVE RemoveAll(_, _)
\* str.replace(word, ""): every occurrence removed, left to right
RemoveAll(t, word) ==
    IF Len(t) < Len(word) THEN t
    ELSE IF SubSeq(t, 1, Len(word)) = word
         THEN RemoveAll(SubSeq(t, Len(word) + 1, Len(t)), word)
         ELSE <<Head(t)>> \o RemoveAll(Tail(t), word)

EndsWith(t, suffix) ==
    Len(t) >= Len(suffix) /\ SubSeq(t, Len(t) - Len(suffix) + 1, Len(t)) = suffix

\* _normalize_conductor_size
NormalizeConductorSize(size_awg) ==
    LET size == Strip(RemoveAll(Upper(Strip(size_awg)), <<"K", "C", "M", "I", "L">>))
    IN IF size # <<>> /\ Head(size) = "#" THEN Some(size)
       ELSE IF Contains(size, <<"/">>) THEN Some(size)
       ELSE IF EndsWith(size, <<"M", "M", "2">>) THEN None
       ELSE Some(size)

\* AmpacityValidator, lines 244-269: the issues of the edge at position i
AmpacityIssues(i) ==
    LET edge == edges[i]
    IN IF IsNone(edge.ocpd) \/ IsNone(Val(edge.ocpd).rating_A) THEN <<>>
       ELSE IF IsNone(edge.cable) THEN <<>>
       ELSE LET cable == Val(edge.cable)
                normalized == NormalizeConductorSize(cable.size_awg)
                table == AMPACITY_TABLE[cable.conductor]
            IN IF IsNone(normalized) THEN <<>>
               ELSE IF Val(normalized) \notin DOMAIN table THEN <<>>
               ELSE LET qty == IF cable.qty_per_phase > 1 THEN cable.qty_per_phase ELSE 1
                        effective_ampacity == table[Val(normalized)] * qty
                    IN IF Val(Val(edge.ocpd).rating_A) > effective_ampacity
                       THEN <<Issue("WARNING", "AMPACITY_LT_OCPD",
                                    Path("edges", Some(i - 1), "cable.size_awg"))>>
                       ELSE <<>>

\* lines 241-270
AmpacityValidator == Flatten([i \in 1..Len(edges) |-> AmpacityIssues(i)])

\* CoverageValidator, lines 287-289: is a kVA or kW value given and not zero
LoadPresent(node) ==
    ~IsNone(node.load)
    /\ (TruthyNumber(Val(node.load).kVA) \/ TruthyNumber(Val(node.load).kW))

\* lines 276-304
CoverageValidator ==
    (IF /\ analysis_flags.short_circuit
        /\ (IsNone(short_circuit) \/ IsNone(Val(short_circuit).service_available_fault_kA))
     THEN <<Issue("ERROR", "SHORT_CIRCUIT_INPUT_MISSING",
                  Path("short_circuit", None, "service_available_fault_kA"))>>
     ELSE <<>>)
    \o (IF /\ analysis_flags.load
           /\ ~(\E i \in 1..Len(panel_schedules) : panel_schedules[i].entries # <<>>)
           /\ ~(\E i \in 1..Len(nodes) : LoadPresent(nodes[i]))
        THEN <<Issue("WARNING", "LOAD_INPUT_INCOMPLETE", Path("panel_schedules", None, ""))>>
        ELSE <<>>)

\* the rules in the order of the VALIDATORS list
VALIDATORS ==
    <<"TopologyValidator", "VoltagePhaseValidator", "PanelProtectionValidator",
      "AmpacityValidator", "CoverageValidator">>

\* validator(graph) for an element of VALIDATORS
RunValidator(name) ==
    CASE name = "TopologyValidator"        -> TopologyValidator
      [] name = "VoltagePhaseValidator"    -> VoltagePhaseValidator
      [] name = "PanelProtectionValidator" -> PanelProtectionValidator
      [] name = "AmpacityValidator"        -> AmpacityValidator
      [] name = "CoverageValidator"        -> CoverageValidator

HasError(iss) == \E i \in 1..Len(iss) : iss[i].severity = "ERROR"

\* a variant of line 321 that skips the rules that follow an ERROR
ExtendIssuesUntilError(iss, name) ==
    IF HasError(iss) THEN iss ELSE iss \o RunValidator(name)

\* line 321: issues.extend(validator(graph))
ExtendIssues(iss, name) == iss \o RunValidator(name)

\* validate_project, line 319
VP_Start ==
    /\ pc = "start"
    /\ issues' = <<>>
    /\ vidx' = 1
    /\ pc' = "validate"
    /\ UNCHANGED <<graphVars, nonValVars, results>>

\* lines 320-321: one pass of the loop over VALIDATORS
VP_Run ==
    /\ pc = "validate"
    /\ vidx <= Len(VALIDATORS)
    /\ issues' = ExtendIssues(issues, VALIDATORS[vidx])
    /\ vidx' = vidx + 1
    /\ UNCHANGED <<graphVars, nonValVars, pc, results>>

\* line 322
VP_Return ==
    /\ pc = "validate"
    /\ vidx > Len(VALIDATORS)
    /\ results' = issues
    /\ pc' = "done"
    /\ UNCHANGED <<graphVars, nonValVars, issues, vidx>>

NextValidate == VP_Start \/ VP_Run \/ VP_Return

\* the validators on the graphs of the load calculation
SpecTopology == InitLoad /\ [][NextValidate]_vars
---------------------------------------------------------------------------
(* Inputs of the validators: two nodes A and B with varied type, voltage,   *)
(* phases, mlo and load; feeders between them with varied protection and    *)
(* cable; varied analysis flags, short-circuit input and schedules          *)

UpstreamNodes ==
    {Node("A", "panel", Some(208), Some("ABC"), None, None, None),
     Node("A", "panel", Some(208), Some("AB"), None, Some(TRUE), Load(Some(1), None, None, None)),
     Node("A", "switchboard", Some(480), None, None, Some(FALSE), Load(Some(0), None, None, None)),
     Node("A", "panel", None, Some("A"), None, Some(FALSE), None)}

DownstreamNodes ==
    {Node("B", "panel", Some(208), Some("ABC"), None, None, None),
     Node("B", "panel", Some(198), Some("AB"), None, Some(TRUE), None),
     Node("B", "panel", Some(197), Some("CA"), None, Some(FALSE), Load(None, Some(0), None, None)),
     Node("B", "panel", Some(0), Some(""), None, Some(TRUE), Load(None, Some(2), None, None)),
     Node("B", "load", Some(480), Some("B"), None, Some(TRUE), None)}

\* protection and cable of a feeder: none; a 100 A breaker on #1 Cu (130 A);
\* a 400 A fuse on 250 kcmil Cu (255 A); a 400 A fuse on a metric size;
\* a switch without rating on #1 Al
Feeders(f, t) ==
    {Edge(f, t, None, None),
     Edge(f, t, OCPD("breaker", Some(100)), Cable("Cu", <<"#", "1">>, 1, None)),
     Edge(f, t, OCPD("fuse", Some(400)),
          Cable("Cu", <<" ", "2", "5", "0", " ", "k", "c", "m", "i", "l">>, 0, None)),
     Edge(f, t, OCPD("fuse", Some(400)), Cable("Al", <<"5", "0", "m", "m", "2">>, 1, None)),
     Edge(f, t, OCPD("switch", None), Cable("Al", <<"#", "1">>, 2, None))}

ValidateEdgeLists ==
    {<<>>}
    \cup {<<e>> : e \in Feeders("A", "B") \cup Feeders("X", "B") \cup Feeders("B", "B")}
    \cup {<<e1, e2>> : e1 \in Feeders("A", "B"),
                       e2 \in Feeders("B", "A") \cup Feeders("A", "B") \cup Feeders("A", "X")}

ShortCircuitCtx(fault_kA) == Some([service_available_fault_kA |-> fault_kA])

InitValidate ==
    /\ nodes \in {<<a, b>> : a \in UpstreamNodes, b \in DownstreamNodes}
    /\ edges \in ValidateEdgeLists
    /\ panel_schedules \in
          {<<>>, <<PanelSchedule("A", <<>>)>>,
           <<PanelSchedule("A", <<PanelEntry(<<"1">>, <<"z">>, None, None, None)>>)>>}
    /\ \E load, sc \in BOOLEAN : analysis_flags = AnalysisFlags(load, TRUE, sc)
    /\ short_circuit \in {None, ShortCircuitCtx(None), ShortCircuitCtx(Some(30))}
    /\ load_results = <<>>
    /\ load_currents = <<>>
    /\ InitWork

SpecValidate == InitValidate /\ [][NextValidate]_vars

---------------------------------------------------------------------------
(* C1: once TopologyValidator has run, the issues hold exactly one          *)
(* TOPOLOGY_CYCLE issue, of severity ERROR, when the edges with two known   *)
(* endpoints contain a directed cycle, and none when they are acyclic;      *)
(* never more than one, however many cycles there are.                      *)

CycleIssues(iss) == {i \in 1..Len(iss) : iss[i].code = "TOPOLOGY_CYCLE"}

C1_OneCycleIssueIffCyclic ==
    /\ Cardinality(CycleIssues(TopologyValidator)) = IF HasCycle THEN 1 ELSE 0
    /\ vidx > 1 =>
          /\ Cardinality(CycleIssues(issues)) = IF HasCycle THEN 1 ELSE 0
          /\ \A i \in CycleIssues(issues) : issues[i].severity = "ERROR"

\* two separate cycles (self-loops at A and at B) next to an edge from an
\* unknown node: still one issue
C1_Witness ==
    /\ vidx > 1
    /\ OnCycle("A") /\ OnCycle("B") /\ "A" \notin Descendants("B")
    /\ HasUnknownEndpoint
    /\ Cardinality(CycleIssues(issues)) = 1
---------------------------------------------------------------------------
(* C7: once PanelProtectionValidator has run, every edge into a node of     *)
(* type panel has, when it carries no OCPD, exactly one issue of this rule: *)
(* an ERROR MLO_REQUIRES_OCPD when the panel's mlo is true, a WARNING       *)
(* MISSING_OCPD (and no ERROR) when mlo is false or unset; an edge with an  *)
(* OCPD has no issue of this rule.                                          *)

OcpdPath(i) == Path("edges", Some(i - 1), "ocpd")

\* the positions in iss of the panel-protection issues of the edge at i
PanelRuleIssues(iss, i) ==
    {k \in 1..Len(iss) :
        /\ iss[k].code \in {"MLO_REQUIRES_OCPD", "MISSING_OCPD"}
        /\ iss[k].path = OcpdPath(i)}

FeedsPanel(i) == edges[i].to \in NodeIdSet /\ NodeOf(edges[i].to).type = "panel"

C7_PanelFeedersClassified ==
    vidx > 3 =>
        \A i \in 1..Len(edges) :
            FeedsPanel(i) =>
                LET found == PanelRuleIssues(issues, i)
                    mlo == NodeOf(edges[i].to).mlo
                IN IF ~IsNone(edges[i].ocpd) THEN found = {}
                   ELSE /\ Cardinality(found) = 1
                        /\ \A k \in found :
                              issues[k] = IF mlo = Some(TRUE)
                                          THEN Issue("ERROR", "MLO_REQUIRES_OCPD", OcpdPath(i))
                                          ELSE Issue("WARNING", "MISSING_OCPD", OcpdPath(i))

\* an unprotected feeder into an MLO panel, an unprotected feeder into a
\* panel whose mlo is unset, and both issues in the list
C7_Witness ==
    /\ vidx > 3
    /\ \E i, j \in 1..Len(edges) :
          /\ FeedsPanel(i) /\ IsNone(edges[i].ocpd) /\ NodeOf(edges[i].to).mlo = Some(TRUE)
          /\ FeedsPanel(j) /\ IsNone(edges[j].ocpd) /\ IsNone(NodeOf(edges[j].to).mlo)
          /\ PanelRuleIssues(issues, i) # {} /\ PanelRuleIssues(issues, j) # {}

---------------------------------------------------------------------------
(* C10: validate_project runs the five rules in the order Topology,         *)
(* Voltage/Phase, Panel Protection, Ampacity, Coverage: after k passes the  *)
(* list is the concatenation of the first k rules' issues, the returned     *)
(* list is the concatenation of all five, and an ERROR of an earlier rule   *)
(* removes nothing of a later rule.                                         *)

AllRulesInOrder ==
    TopologyValidator \o VoltagePhaseValidator \o PanelProtectionValidator
        \o AmpacityValidator \o CoverageValidator

C10_AllRulesInFixedOrder ==
    /\ pc = "validate" =>
          /\ vidx \in 1..6
          /\ Len(issues) <= Len(AllRulesInOrder)
          /\ issues = SubSeq(AllRulesInOrder, 1, Len(issues))
          /\ vidx > 1 => Len(issues) >= Len(TopologyValidator)
          /\ vidx > 2 => Len(issues) >= Len(TopologyValidator \o VoltagePhaseValidator)
          /\ vidx > 5 => issues = AllRulesInOrder
    /\ pc = "done" => results = AllRulesInOrder

\* the first rule reports an ERROR and each of the five rules reports
\* something
C10_Witness ==
    /\ pc = "done"
    /\ HasError(TopologyValidator)
    /\ VoltagePhaseValidator # <<>> /\ PanelProtectionValidator # <<>>
    /\ AmpacityValidator # <<>> /\ CoverageValidator # <<>>
    /\ Len(results) > Len(TopologyValidator)
---------------------------------------------------------------------------
(* eejx/analysis/voltage_drop.py                                           *)
(* Fixed-point arithmetic, rounded down: resistance in micro-ohm per foot,  *)
(* current in A, length in ft, voltage in units of 10 microvolt and         *)
(* percentages in units of 0.00001 percent.                                 *)

\* SQRT3 in thousandths
SQRT3 == 1732

\* REACTANCE_OHMS_PER_1000FT in micro-ohm per foot
REACTANCE_OHMS_PER_1000FT == 80

\* pf = 0.95 in hundredths
PowerFactor == 95

\* sin_theta = sqrt(1 - pf^2) in hundred-thousandths
SinTheta == 31225

\* the depth of nested accumulate calls at which the interpreter raises
\* RecursionError; above the longest chain an acyclic input can build
RecursionLimit == 6

\* RESISTANCE_OHMS_PER_1000FT in micro-ohm per foot, keyed by conductor and
\* by the characters of the size
RESISTANCE_OHMS_PER_1000FT ==
    [Cu |-> (<<"#", "1", "4">> :> 3140) @@ (<<"#", "1", "2">> :> 1980)
            @@ (<<"#", "1", "0">> :> 1240) @@ (<<"#", "8">> :> 778)
            @@ (<<"#", "6">> :> 491) @@ (<<"#", "4">> :> 308) @@ (<<"#", "3">> :> 245)
            @@ (<<"#", "2">> :> 194) @@ (<<"#", "1">> :> 154)
            @@ (<<"1", "/", "0">> :> 122) @@ (<<"2", "/", "0">> :> 97)
            @@ (<<"3", "/", "0">> :> 77) @@ (<<"4", "/", "0">> :> 61)
            @@ (<<"2", "5", "0">> :> 52) @@ (<<"3", "0", "0">> :> 43)
            @@ (<<"3", "5", "0">> :> 37) @@ (<<"4", "0", "0">> :> 33)
            @@ (<<"5", "0", "0">> :> 28),
     Al |-> (<<"#", "1", "2">> :> 3190) @@ (<<"#", "1", "0">> :> 1990)
            @@ (<<"#", "8">> :> 1260) @@ (<<"#", "6">> :> 791) @@ (<<"#", "4">> :> 497)
            @@ (<<"#", "3">> :> 395) @@ (<<"#", "2">> :> 313) @@ (<<"#", "1">> :> 249)
            @@ (<<"1", "/", "0">> :> 197) @@ (<<"2", "/", "0">> :> 156)
            @@ (<<"3", "/", "0">> :> 124) @@ (<<"4", "/", "0">> :> 98)
            @@ (<<"2", "5", "0">> :> 82) @@ (<<"3", "0", "0">> :> 69)
            @@ (<<"3", "5", "0">> :> 59) @@ (<<"4", "0", "0">> :> 51)
            @@ (<<"5", "0", "0">> :> 41)]

\* str.isdigit()
IsDigit(t) ==
    t # <<>> /\ \A i \in 1..Len(t) :
                   t[i] \in {"0", "1", "2", "3", "4", "5", "6", "7", "8", "9"}

\* _normalize_size
NormalizeSize(size_awg) ==
    LET size == Strip(RemoveAll(Upper(Strip(size_awg)), <<"K", "C", "M", "I", "L">>))
    IN IF (size # <<>> /\ Head(size) = "#") \/ Contains(size, <<"/">>) THEN Some(size)
       ELSE IF IsDigit(size) THEN Some(size)
       ELSE None

\* _edge_current
EdgeCurrent(edge) ==
    IF edge.to \in DOMAIN load_results THEN load_results[edge.to].I_A ELSE None

\* _voltage_for_node
VoltageForNode(node_id) ==
    IF node_id \in NodeIdSet THEN NodeOf(node_id).voltage_ll_V ELSE None

\* _phase_count(graph, node_id)
VD_PhaseCount(node_id) ==
    IF node_id \in NodeIdSet /\ PhaseSet(NodeOf(node_id)) # {}
    THEN Len(Text(Val(NodeOf(node_id).phases)))
    ELSE 3

TimesSqrt3(x) == (x * SQRT3) \div 1000

\* a variant that reports a zero drop where the data is missing
NoDropZero == [V_drop |-> Some(0), pct |-> Some(0)]

NoDrop == [V_drop |-> None, pct |-> None]

\* lines 115-137, for an edge whose cable data and current are known
EdgeDrop(edge, resistance, current) ==
    LET cable == Val(edge.cable)
        qty == IF cable.qty_per_phase > 1 THEN cable.qty_per_phase ELSE 1
        \* r_total * cos_theta + x_total * sin_theta per foot, in 1e-8 ohm
        z == (resistance * PowerFactor) \div qty
                + (REACTANCE_OHMS_PER_1000FT * SinTheta) \div 1000
        impedance_drop == (current * Val(cable.length_ft) * z) \div 1000
        phase_count == VD_PhaseCount(edge.to)
        voltage_drop == IF phase_count = 1 THEN 2 * impedance_drop
                        ELSE TimesSqrt3(impedance_drop)
        nominal == VoltageForNode(edge.to)
    IN [V_drop |-> Some(voltage_drop),
        pct |-> IF TruthyNumber(nominal)
                THEN Some(IF phase_count = 1
                          THEN (TimesSqrt3(voltage_drop) * 100) \div Val(nominal)
                          ELSE (voltage_drop * 100) \div Val(nominal))
                ELSE None]

\* lines 97-137: per_edge of the edge at position i
PerEdgeOf(i) ==
    LET edge == edges[i]
    IN IF IsNone(edge.cable) \/ IsNone(Val(edge.cable).length_ft) THEN NoDrop
       ELSE LET normalized == NormalizeSize(Val(edge.cable).size_awg)
                table == RESISTANCE_OHMS_PER_1000FT[Val(edge.cable).conductor]
            IN IF IsNone(normalized) THEN NoDrop
               ELSE IF Val(normalized) \notin DOMAIN table THEN NoDrop
               ELSE IF IsNone(EdgeCurrent(edge)) THEN NoDrop
               ELSE EdgeDrop(edge, table[Val(normalized)], Val(EdgeCurrent(edge)))

\* lines 142-144: incoming_edges.get(node_id, []), as edge positions
VD_IncomingEdges(node_id) ==
    LET IsIncoming(i) == edges[i].to = node_id
    IN SelectSeq([i \in 1..Len(edges) |-> i], IsIncoming)

\* value or 0.0
OrZero(x) == IF IsNone(x) THEN 0 ELSE Val(x)

\* an active call accumulate(node_id): k is the position in edges_in of the
\* edge the loop of line 157 is at, entered tells that lines 149-156 are past
Frame(node_id) ==
    [node_id |-> node_id, k |-> 1, max_drop |-> 0, max_pct |-> 0, entered |-> FALSE]

\* lines 161-167: the caller's loop body once accumulate(upstream) returned
AfterUpstream(f, upstream_drop) ==
    LET edge_id == VD_IncomingEdges(f.node_id)[f.k]
        total_drop == upstream_drop.V_drop + OrZero(per_edge[edge_id].V_drop)
        total_pct == upstream_drop.pct + OrZero(per_edge[edge_id].pct)
    IN [f EXCEPT !.k = f.k + 1,
                 !.max_drop = IF total_drop > f.max_drop THEN total_drop ELSE f.max_drop,
                 !.max_pct = IF total_drop > f.max_drop THEN total_pct ELSE f.max_pct]

\* the stack once its top call returned value: the caller, if any, goes on
Returned(value) ==
    LET rest == SubSeq(stack, 1, Len(stack) - 1)
    IN IF rest = <<>> THEN rest
       ELSE [rest EXCEPT ![Len(rest)] = AfterUpstream(rest[Len(rest)], value)]
Top == stack[Len(stack)]

\* lines 94-146
VD_Start ==
    /\ pc = "start"
    /\ per_edge' = [i \in 1..Len(edges) |-> PerEdgeOf(i)]
    /\ per_path' = <<>>
    /\ memo' = <<>>
    /\ stack' = <<>>
    /\ node_idx' = 1
    /\ pc' = "accumulate"
    /\ UNCHANGED <<graphVars, nonVdVars, results>>

\* lines 171-173: the final loop calls accumulate for a node not in memo
VD_OuterCall ==
    /\ pc = "accumulate"
    /\ stack = <<>>
    /\ node_idx <= Len(nodes)
    /\ nodes[node_idx].id \notin DOMAIN memo
    /\ stack' = <<Frame(nodes[node_idx].id)>>
    /\ UNCHANGED <<graphVars, nonVdVars, pc, per_edge, per_path, memo, node_idx, results>>

\* lines 171-174: per_path[node.id] = memo[node.id]
VD_Record ==
    /\ pc = "accumulate"
    /\ stack = <<>>
    /\ node_idx <= Len(nodes)
    /\ nodes[node_idx].id \in DOMAIN memo
    /\ per_path' = Put(per_path, nodes[node_idx].id, memo[nodes[node_idx].id])
    /\ node_idx' = node_idx + 1
    /\ UNCHANGED <<graphVars, nonVdVars, pc, per_edge, memo, stack, results>>

\* lines 149-150
VD_ReturnMemo ==
    /\ pc = "accumulate"
    /\ stack # <<>>
    /\ ~Top.entered
    /\ Top.node_id \in DOMAIN memo
    /\ stack' = Returned(memo[Top.node_id])
    /\ UNCHANGED <<graphVars, nonVdVars, pc, per_edge, per_path, memo, node_idx, results>>

\* lines 151-154
VD_ReturnRoot ==
    /\ pc = "accumulate"
    /\ stack # <<>>
    /\ ~Top.entered
    /\ Top.node_id \notin DOMAIN memo
    /\ VD_IncomingEdges(Top.node_id) = <<>>
    /\ memo' = Put(memo, Top.node_id, [V_drop |-> 0, pct |-> 0])
    /\ stack' = Returned([V_drop |-> 0, pct |-> 0])
    /\ UNCHANGED <<graphVars, nonVdVars, pc, per_edge, per_path, node_idx, results>>

\* the call of line 160 is next
AtCall ==
    /\ pc = "accumulate"
    /\ stack # <<>>
    /\ Top.entered \/ Top.node_id \notin DOMAIN memo
    /\ Top.k <= Len(VD_IncomingEdges(Top.node_id))

\* lines 155-160: accumulate(upstream)
VD_Call ==
    /\ AtCall
    /\ Len(stack) < RecursionLimit
    /\ stack' = Append([stack EXCEPT ![Len(stack)].entered = TRUE],
                       Frame(edges[VD_IncomingEdges(Top.node_id)[Top.k]].from_))
    /\ UNCHANGED <<graphVars, nonVdVars, pc, per_edge, per_path, memo, node_idx, results>>

\* line 160 at the interpreter's recursion limit: RecursionError leaves
\* accumulate and run_voltage_drop
VD_RecursionError ==
    /\ AtCall
    /\ Len(stack) >= RecursionLimit
    /\ pc' = "RecursionError"
    /\ UNCHANGED <<graphVars, nonVdVars, vdVars, results>>

\* lines 168-169
VD_ReturnMax ==
    /\ pc = "accumulate"
    /\ stack # <<>>
    /\ Top.entered
    /\ Top.k > Len(VD_IncomingEdges(Top.node_id))
    /\ memo' = Put(memo, Top.node_id, [V_drop |-> Top.max_drop, pct |-> Top.max_pct])
    /\ stack' = Returned([V_drop |-> Top.max_drop, pct |-> Top.max_pct])
    /\ UNCHANGED <<graphVars, nonVdVars, pc, per_edge, per_path, node_idx, results>>

\* line 176
VD_Return ==
    /\ pc = "accumulate"
    /\ stack = <<>>
    /\ node_idx > Len(nodes)
    /\ results' = [per_edge |-> per_edge, per_path |-> per_path]
    /\ pc' = "done"
    /\ UNCHANGED <<graphVars, nonVdVars, vdVars>>

NextVD ==
    \/ VD_Start \/ VD_OuterCall \/ VD_Record \/ VD_ReturnMemo \/ VD_ReturnRoot
    \/ VD_Call \/ VD_RecursionError \/ VD_ReturnMax \/ VD_Return

---------------------------------------------------------------------------
(* Inputs of the voltage drop: a service S (480 V), a node A (480 V or no   *)
(* voltage given) and a panel C (240 V, three-phase or single-phase);       *)
(* feeders with or without cable data; currents of A and C                  *)

VDNodeLists ==
    {<<Node("S", "utility_service", Some(480), Some("ABC"), None, None, None),
       Node("A", "transformer", va, Some("ABC"), None, None, None),
       Node("C", "panel", Some(240), pc_, None, None, None)>>
        : va \in {Some(480), None}, pc_ \in {Some("ABC"), Some("A")}}

Cu1(length) == Cable("Cu", <<"#", "1">>, 1, length)

\* no cable; 100 ft and 200 ft of #1 Cu
PlainCables == {None, Cu1(Some(100)), Cu1(Some(200))}

\* also: two parallel sets of 250 kcmil Al; a metric size; no length
AllCables ==
    PlainCables
    \cup {Cable("Al", <<"2", "5", "0", " ", "k", "c", "m", "i", "l">>, 2, Some(100)),
          Cable("Cu", <<"5", "0", "m", "m", "2">>, 1, Some(100)),
          Cu1(None)}

VDEdgeLists ==
    {<<>>}
    \cup {<<Edge(f, "A", None, c)>> : f \in {"S", "X"}, c \in AllCables}
    \cup {<<Edge("S", "A", None, c1), Edge("A", "C", None, c2)>> : c1, c2 \in AllCables}
    \cup {<<Edge("S", "C", None, c1), Edge("S", "A", None, c2), Edge("A", "C", None, c3)>>
             : c1, c2, c3 \in PlainCables}
    \cup {<<Edge("S", "A", None, c1), Edge("A", "C", None, c2), Edge("S", "C", None, c3)>>
             : c1, c2, c3 \in PlainCables}
    \cup {<<Edge("S", "A", None, c1), Edge("S", "A", None, c2), Edge("A", "X", None, c1)>>
             : c1, c2 \in PlainCables}
    \cup {<<Edge("A", "C", None, c1), Edge("C", "A", None, c2)>> : c1, c2 \in PlainCables}
    \cup {<<Edge("A", "A", None, c)>> : c \in PlainCables}
    \cup {<<Edge("S", "A", None, c1), Edge("A", "C", None, c2), Edge("C", "A", None, c1)>>
             : c1, c2 \in PlainCables}
    \cup {<<Edge("X", "A", None, c1), Edge("X", "X", None, c2)>> : c1, c2 \in PlainCables}

Amps(i) == [I_A |-> i]

VDLoadResults ==
    {("A" :> Amps(Some(10))) @@ ("C" :> Amps(Some(10))),
     ("A" :> Amps(Some(30))) @@ ("C" :> Amps(Some(10))),
     ("A" :> Amps(None)) @@ ("S" :> Amps(Some(30)))}

InitVD ==
    /\ nodes \in VDNodeLists
    /\ edges \in VDEdgeLists
    /\ panel_schedules = <<>>
    /\ analysis_flags = AnalysisFlags(TRUE, TRUE, FALSE)
    /\ short_circuit = None
    /\ load_results \in VDLoadResults
    /\ load_currents = <<>>
    /\ InitWork

SpecVD == InitVD /\ [][NextVD]_vars
---------------------------------------------------------------------------
(* C3: run_voltage_drop is guarded against cycles: on a graph whose edges   *)
(* contain a directed cycle the accumulation does not end in RecursionError *)
(* and the returned per_path has an entry for every node.                   *)

C3_GuardedAgainstCycles ==
    HasCycle =>
        /\ pc # "RecursionError"
        /\ pc = "done" => DOMAIN results.per_path = NodeIdSet

\* what the code does give: without a cycle among the edges (unknown ids
\* included) the recursion stays below the limit and every node is reported
AllPairs == {<<edges[i].from_, edges[i].to>> : i \in 1..Len(edges)}

HasCycleAnyEdge ==
    \E p \in AllPairs : p[1] \in Closure({p[2]}, AllPairs) \cup {p[2]}

VD_AcyclicCompletes ==
    ~HasCycleAnyEdge =>
        /\ pc # "RecursionError"
        /\ pc = "done" => DOMAIN results.per_path = NodeIdSet

---------------------------------------------------------------------------
(* C9: the per_path percentage of a node is the maximum, over the upstream  *)
(* directed paths ending at the node, of the summed per-edge percentages    *)
(* (0 without incoming edge).                                               *)

SetMax(S) == CHOOSE x \in S : \A y \in S : y <= x

RECURSIVE MaxPathPct(_)
\* evaluated on returned results only, where the upstream edges are acyclic
MaxPathPct(node_id) ==
    LET edges_in == VD_IncomingEdges(node_id)
    IN IF edges_in = <<>> THEN 0
       ELSE SetMax({MaxPathPct(edges[edges_in[k]].from_) + OrZero(per_edge[edges_in[k]].pct)
                       : k \in 1..Len(edges_in)})

C9_PerPathIsMaxCumulativePct ==
    pc = "done" =>
        \A n \in NodeIdSet : results.per_path[n].pct = MaxPathPct(n)
---------------------------------------------------------------------------
(* ee_mvp/nec.py and ee_mvp/taps.py                                        *)
(* Ampacities are in thousandths of an ampere, the ambient factor in        *)
(* hundredths and the bundling factor in tenths. The rows of the 310.16     *)
(* table are data: a cable carries the table's ampacity of its size,        *)
(* material and insulation in each temperature column (None: no entry).     *)

\* ee_mvp.models.Cable, the fields check_feeder_taps reads
TapCable(temp_rating_C, ambient_C, rooftop_height_in, qty_per_phase, neutral_counts_as_ccc, length_ft, is_tap, tap_termination_has_ocpd, table) ==
    Some([temp_rating_C |-> temp_rating_C, ambient_C |-> ambient_C,
          rooftop_height_in |-> rooftop_height_in, qty_per_phase |-> qty_per_phase,
          neutral_counts_as_ccc |-> neutral_counts_as_ccc, length_ft |-> length_ft,
          is_tap |-> is_tap, tap_termination_has_ocpd |-> tap_termination_has_ocpd,
          table |-> table])

\* ee_mvp.models.Edge
TapEdge(from_id, to_id, ocpd, cable) ==
    [from_id |-> from_id, to_id |-> to_id, ocpd |-> ocpd, cable |-> cable]

\* _temperature_column for a given rating
TemperatureColumn(temp_C) == IF temp_C >= 90 THEN 90 ELSE IF temp_C >= 75 THEN 75 ELSE 60

\* ampacity_base: the table entry of the cable in the column of temp_C, None
\* where the code raises TableLookupError
AmpacityBase(cable, temp_C) == cable.table[TemperatureColumn(temp_C)]

\* ambient_correction_factor
AmbientCorrectionFactor(temp_C, ambient_C, rooftop_height_in) ==
    LET ambient0 == IF IsNone(ambient_C) THEN 30 ELSE Val(ambient_C)
        ambient == IF ~IsNone(rooftop_height_in) /\ Val(rooftop_height_in) <= 12
                   THEN ambient0 + 17 ELSE ambient0
        ref == IF temp_C <= 60 THEN <<100, 88, 82, 71>>
               ELSE IF temp_C <= 75 THEN <<100, 94, 88, 82>>
               ELSE <<100, 96, 91, 87>>
    IN IF ambient <= 30 THEN ref[1]
       ELSE IF ambient <= 35 THEN ref[2]
       ELSE IF ambient <= 40 THEN ref[3]
       ELSE ref[4]

\* conductor_correction_factor
ConductorCorrectionFactor(ccc) ==
    IF ccc <= 3 THEN 10 ELSE IF ccc <= 6 THEN 8 ELSE IF ccc <= 9 THEN 7 ELSE 5

\* ampacity_adjusted with the arguments check_feeder_taps passes (lines
\* 23-33); None where a table lookup raises
AmpacityAdjusted(cable) ==
    LET temp_C == cable.temp_rating_C
        base == AmpacityBase(cable, temp_C)
        amb == AmbientCorrectionFactor(temp_C, cable.ambient_C, cable.rooftop_height_in)
        bundling == ConductorCorrectionFactor(
                        cable.qty_per_phase * (IF cable.neutral_counts_as_ccc THEN 4 ELSE 3))
        \* terminal_temperature_limit(term_temp_C) with term_temp_C = temp_C
        terminal_limit == AmpacityBase(cable, TemperatureColumn(temp_C))
        parallel_sets == IF cable.qty_per_phase > 1 THEN cable.qty_per_phase ELSE 1
    IN IF IsNone(base) \/ IsNone(terminal_limit) THEN None
       ELSE LET derated == Val(base) * amb * bundling
                limit == Val(terminal_limit) * 1000
            IN Some((IF derated < limit THEN derated ELSE limit) * parallel_sets)

\* _current_at_bus
CurrentAtBus(currents, bus) == Get(currents, bus, 0)

\* a variant of line 50 that asks for both rules
TapRowBothRules(edge, ampacity) ==
    LET cable == Val(edge.cable)
        length == OrZero(cable.length_ft)
        load == CurrentAtBus(load_currents, edge.to_id)
        ten_ft_ok == /\ length <= 10
                     /\ ampacity >= 1000 * load
                     /\ cable.tap_termination_has_ocpd = Some(TRUE)
        source_ocpd == IF IsNone(edge.ocpd) THEN None ELSE Some(Val(edge.ocpd).rating_A)
        twentyfive_ok == /\ length <= 25
                         /\ TruthyNumber(source_ocpd)
                         /\ 3 * ampacity >= 1000 * OrZero(source_ocpd)
    IN [from_ |-> edge.from_id, to |-> edge.to_id, length_ft |-> length,
        ampacity_A |-> ampacity, load_A |-> load, passes_10ft |-> ten_ft_ok,
        passes_25ft |-> twentyfive_ok, passes |-> ten_ft_ok /\ twentyfive_ok]

\* a variant of line 41 without the limit of the length
TapRowAnyLength(edge, ampacity) ==
    LET cable == Val(edge.cable)
        length == OrZero(cable.length_ft)
        load == CurrentAtBus(load_currents, edge.to_id)
        ten_ft_ok == /\ length <= 10
                     /\ ampacity >= 1000 * load
                     /\ cable.tap_termination_has_ocpd = Some(TRUE)
        source_ocpd == IF IsNone(edge.ocpd) THEN None ELSE Some(Val(edge.ocpd).rating_A)
        twentyfive_ok == /\ TruthyNumber(source_ocpd)
                         /\ 3 * ampacity >= 1000 * OrZero(source_ocpd)
    IN [from_ |-> edge.from_id, to |-> edge.to_id, length_ft |-> length,
        ampacity_A |-> ampacity, load_A |-> load, passes_10ft |-> ten_ft_ok,
        passes_25ft |-> twentyfive_ok, passes |-> ten_ft_ok \/ twentyfive_ok]

\* lines 34-52: the row of a tap edge
TapRow(edge, ampacity) ==
    LET cable == Val(edge.cable)
        length == OrZero(cable.length_ft)
        load == CurrentAtBus(load_currents, edge.to_id)
        ten_ft_ok == /\ length <= 10
                     /\ ampacity >= 1000 * load
                     /\ cable.tap_termination_has_ocpd = Some(TRUE)
        source_ocpd == IF IsNone(edge.ocpd) THEN None ELSE Some(Val(edge.ocpd).rating_A)
        twentyfive_ok == /\ length <= 25
                         /\ TruthyNumber(source_ocpd)
                         /\ 3 * ampacity >= 1000 * OrZero(source_ocpd)
    IN [from_ |-> edge.from_id, to |-> edge.to_id, length_ft |-> length,
        ampacity_A |-> ampacity, load_A |-> load, passes_10ft |-> ten_ft_ok,
        passes_25ft |-> twentyfive_ok, passes |-> ten_ft_ok \/ twentyfive_ok]

IsTapEdge(edge) == ~IsNone(edge.cable) /\ Val(edge.cable).is_tap

\* line 18
CT_Start ==
    /\ pc = "start"
    /\ rows' = <<>>
    /\ edge_idx' = 1
    /\ pc' = "taps"
    /\ UNCHANGED <<graphVars, nonTapVars, results>>

\* lines 19-22: an edge without cable or not flagged as tap
CT_Skip ==
    /\ pc = "taps"
    /\ edge_idx <= Len(edges)
    /\ ~IsTapEdge(edges[edge_idx])
    /\ edge_idx' = edge_idx + 1
    /\ UNCHANGED <<graphVars, nonTapVars, pc, rows, results>>

\* lines 23-52
CT_Row ==
    /\ pc = "taps"
    /\ edge_idx <= Len(edges)
    /\ IsTapEdge(edges[edge_idx])
    /\ ~IsNone(AmpacityAdjusted(Val(edges[edge_idx].cable)))
    /\ rows' = Append(rows, TapRow(edges[edge_idx],
                                   Val(AmpacityAdjusted(Val(edges[edge_idx].cable)))))
    /\ edge_idx' = edge_idx + 1
    /\ UNCHANGED <<graphVars, nonTapVars, pc, results>>

\* line 23 when the table has no entry: TableLookupError leaves the function
CT_TableLookupError ==
    /\ pc = "taps"
    /\ edge_idx <= Len(edges)
    /\ IsTapEdge(edges[edge_idx])
    /\ IsNone(AmpacityAdjusted(Val(edges[edge_idx].cable)))
    /\ pc' = "TableLookupError"
    /\ UNCHANGED <<graphVars, nonTapVars, tapVars, results>>

\* line 53
CT_Return ==
    /\ pc = "taps"
    /\ edge_idx > Len(edges)
    /\ results' = rows
    /\ pc' = "done"
    /\ UNCHANGED <<graphVars, nonTapVars, tapVars>>

NextTaps == CT_Start \/ CT_Skip \/ CT_Row \/ CT_TableLookupError \/ CT_Return

---------------------------------------------------------------------------
(* Inputs of the tap check: one tap from bus M to bus T with varied cable,  *)
(* length, termination and source OCPD, alone or next to a second edge      *)

\* #1 Cu THHN: 110, 130 and 145 A in the 60, 75 and 90 C columns
Table1 == (60 :> Some(110)) @@ (75 :> Some(130)) @@ (90 :> Some(145))

\* a size the 75 C column does not list
TableGap == (60 :> Some(110)) @@ (75 :> None) @@ (90 :> Some(145))

\* temperature rating, ambient, rooftop height, parallel sets, neutral
\* counted, table: adjusted ampacities 130, 131.95, 182, 78.1, 124.8 A and
\* a failing lookup
TapConfigs ==
    {<<75, None, None, 1, FALSE, Table1>>,
     <<90, Some(40), None, 1, FALSE, Table1>>,
     <<75, Some(30), None, 2, TRUE, Table1>>,
     <<60, Some(30), Some(6), 1, FALSE, Table1>>,
     <<80, Some(35), Some(24), 1, FALSE, Table1>>,
     <<75, None, None, 1, FALSE, TableGap>>}

Taps ==
    {TapEdge("M", "T", ocpd,
             TapCable(c[1], c[2], c[3], c[4], c[5], length, TRUE, term, c[6]))
        : c \in TapConfigs,
          length \in {None, Some(8), Some(10), Some(11), Some(25), Some(26)},
          term \in {None, Some(TRUE), Some(FALSE)},
          ocpd \in {None, Some([type |-> "breaker", rating_A |-> 0]),
                    Some([type |-> "breaker", rating_A |-> 390]),
                    Some([type |-> "fuse", rating_A |-> 400])}}

\* a feeder that is no tap, an edge without cable, a 25 ft tap to bus U
OtherEdges ==
    {TapEdge("S", "M", None,
             TapCable(75, None, None, 1, FALSE, Some(100), FALSE, Some(TRUE), Table1)),
     TapEdge("S", "M", None, None),
     TapEdge("M", "U", Some([type |-> "breaker", rating_A |-> 300]),
             TapCable(75, None, None, 1, FALSE, Some(25), TRUE, None, Table1))}

InitTaps ==
    /\ nodes = <<>>
    /\ edges \in {<<t>> : t \in Taps}
                 \cup {<<t, o>> : t \in Taps, o \in OtherEdges}
                 \cup {<<o, t>> : t \in Taps, o \in OtherEdges}
    /\ panel_schedules = <<>>
    /\ analysis_flags = AnalysisFlags(TRUE, TRUE, FALSE)
    /\ short_circuit = None
    /\ load_results = <<>>
    /\ load_currents \in {<<>>, "T" :> 130, ("T" :> 131) @@ ("U" :> 50)}
    /\ InitWork

SpecTaps == InitTaps /\ [][NextTaps]_vars

---------------------------------------------------------------------------
(* C8: check_feeder_taps reports one row per tap edge with                  *)
(* passes = passes_10ft OR passes_25ft; a tap of at most 10 ft whose        *)
(* adjusted ampacity is at least the downstream load current and whose      *)
(* termination has an OCPD has passes_10ft and passes true whatever         *)
(* passes_25ft is, also without source OCPD.                                *)

TapPositions ==
    LET IsTap(i) == IsTapEdge(edges[i])
    IN SelectSeq([i \in 1..Len(edges) |-> i], IsTap)

TenFootCase(edge, row) ==
    /\ OrZero(Val(edge.cable).length_ft) <= 10
    /\ row.ampacity_A >= 1000 * Get(load_currents, edge.to_id, 0)
    /\ Val(edge.cable).tap_termination_has_ocpd = Some(TRUE)

C8_TapPassesIfEitherRule ==
    /\ pc \in {"taps", "done"} =>
          /\ Len(rows) <= Len(TapPositions)
          /\ \A k \in 1..Len(rows) :
                LET edge == edges[TapPositions[k]]
                IN /\ rows[k].from_ = edge.from_id /\ rows[k].to = edge.to_id
                   /\ rows[k].passes = (rows[k].passes_10ft \/ rows[k].passes_25ft)
                   /\ TenFootCase(edge, rows[k]) => rows[k].passes_10ft /\ rows[k].passes
    /\ pc = "done" => results = rows /\ Len(results) = Len(TapPositions)

\* an 8 ft tap without source OCPD that passes by the 10 ft rule alone
C8_Witness ==
    /\ pc = "done"
    /\ \E k \in 1..Len(results) :
          LET edge == edges[TapPositions[k]]
          IN /\ TenFootCase(edge, results[k])
             /\ Val(edge.cable).length_ft = Some(8)
             /\ IsNone(edge.ocpd)
             /\ results[k].passes_10ft /\ ~results[k].passes_25ft /\ results[k].passes
---------------------------------------------------------------------------
(* C11: validate_project returns no ERROR for a graph whose edges all join  *)
(* existing nodes and are acyclic, whose downstream phase sets are subsets  *)
(* of the upstream ones where both are given, whose MLO panels have an OCPD *)
(* on every incoming edge, and whose short-circuit analysis is disabled or  *)
(* has a service fault current; MISSING_OCPD, VOLTAGE_MISMATCH and          *)
(* AMPACITY_LT_OCPD issues are always warnings.                             *)

\* the letters of a phases field, nothing when it is unset
PhaseLetters(id) ==
    LET given == NodeOf(id).phases
    IN IF given = None THEN {} ELSE {Text(Val(given))[k] : k \in 1..Len(Text(Val(given)))}

PhasesGiven(id) == NodeOf(id).phases # None

PhasesCompatible ==
    \A i \in 1..Len(edges) :
        (PhasesGiven(edges[i].from_) /\ PhasesGiven(edges[i].to))
            => PhaseLetters(edges[i].to) \subseteq PhaseLetters(edges[i].from_)

IsMloPanel(id) == NodeOf(id).type = "panel" /\ NodeOf(id).mlo = Some(TRUE)

MloPanelsProtected ==
    \A i \in 1..Len(edges) : IsMloPanel(edges[i].to) => edges[i].ocpd # None

ShortCircuitCovered ==
    \/ ~analysis_flags.short_circuit
    \/ short_circuit # None /\ Val(short_circuit).service_available_fault_kA # None

CleanGraph ==
    /\ AllEdgesValid /\ ~HasCycle
    /\ PhasesCompatible /\ MloPanelsProtected /\ ShortCircuitCovered

WarningCodes == {"MISSING_OCPD", "VOLTAGE_MISMATCH", "AMPACITY_LT_OCPD"}

HasCode(iss, code) == \E k \in 1..Len(iss) : iss[k].code = code

C11_CleanGraphHasNoError ==
    /\ \A k \in 1..Len(issues) :
          issues[k].code \in WarningCodes => issues[k].severity = "WARNING"
    /\ pc = "done" =>
          /\ CleanGraph => \A k \in 1..Len(results) : results[k].severity # "ERROR"
          /\ \A k \in 1..Len(results) :
                results[k].code \in WarningCodes => results[k].severity = "WARNING"

\* a clean graph whose feeders have a missing OCPD on a non-MLO panel, a
\* voltage mismatch and an undersized conductor: three warnings, no ERROR
C11_Witness ==
    /\ pc = "done"
    /\ CleanGraph
    /\ Len(edges) > 0
    /\ analysis_flags.short_circuit
    /\ \A code \in WarningCodes : HasCode(results, code)
    /\ ~HasError(results)
---------------------------------------------------------------------------
(* pydantic/__init__.py: the model base class behind the graph schema.      *)
(* Python values carry their type: None, bool, int, float (counted in       *)
(* halves, so that int() truncates), str (its characters), list, dict (a    *)
(* function of its keys) and model instance (class name and field values).  *)

PyNone == [py |-> "None"]
PyBool(b) == [py |-> "bool", b |-> b]
PyInt(n) == [py |-> "int", n |-> n]
PyFloat(h) == [py |-> "float", h |-> h]
PyStr(t) == [py |-> "str", t |-> t]
PyList(items) == [py |-> "list", items |-> items]
PyDict(d) == [py |-> "dict", d |-> d]
PyModel(cls, f) == [py |-> "model", cls |-> cls, f |-> f]

EmptyDict == [k \in {} |-> PyNone]

\* bool(value)
Truthy(v) ==
    CASE v.py = "None"  -> FALSE
      [] v.py = "bool"  -> v.b
      [] v.py = "int"   -> v.n # 0
      [] v.py = "float" -> v.h # 0
      [] v.py = "str"   -> v.t # <<>>
      [] v.py = "list"  -> v.items # <<>>
      [] v.py = "dict"  -> DOMAIN v.d # {}
      [] v.py = "model" -> TRUE

DigitVal(c) ==
    CASE c = "0" -> 0 [] c = "1" -> 1 [] c = "2" -> 2 [] c = "3" -> 3 [] c = "4" -> 4
      [] c = "5" -> 5 [] c = "6" -> 6 [] c = "7" -> 7 [] c = "8" -> 8 [] c = "9" -> 9

DigitChar(d) == <<"0", "1", "2", "3", "4", "5", "6", "7", "8", "9">>[d + 1]

RECURSIVE ParseNat(_)
\* the number a string of digits spells
ParseNat(t) == IF t = <<>> THEN 0 ELSE 10 * ParseNat(SubSeq(t, 1, Len(t) - 1)) + DigitVal(t[Len(t)])

RECURSIVE FormatNat(_)
\* str(n) for n >= 0
FormatNat(n) == IF n < 10 THEN <<DigitChar(n)>> ELSE Append(FormatNat(n \div 10), DigitChar(n % 10))

\* the outcome of a conversion: a value, or an exception
Ok(v) == [raised |-> FALSE, value |-> v]
Raise == [raised |-> TRUE, value |-> PyNone]

\* str(value), line 155; never raises
ToStr(v) ==
    CASE v.py = "str"   -> Ok(v)
      [] v.py = "None"  -> Ok(PyStr(<<"N", "o", "n", "e">>))
      [] v.py = "bool"  -> Ok(PyStr(IF v.b THEN <<"T", "r", "u", "e">> ELSE <<"F", "a", "l", "s", "e">>))
      [] v.py = "int"   -> Ok(PyStr(FormatNat(v.n)))
      [] v.py = "float" -> Ok(PyStr(FormatNat(v.h \div 2) \o <<".", IF v.h % 2 = 0 THEN "0" ELSE "5">>))

\* the digits before a trailing ".0" or ".5", or nothing
WholePart(t) ==
    IF Len(t) >= 3 /\ t[Len(t) - 1] = "." /\ t[Len(t)] \in {"0", "5"} /\ IsDigit(SubSeq(t, 1, Len(t) - 2))
    THEN Some(SubSeq(t, 1, Len(t) - 2)) ELSE None

\* int(value), line 155: truncates a float, parses digits, raises on None,
\* on a container and on any other text
ToInt(v) ==
    CASE v.py = "int"   -> Ok(v)
      [] v.py = "float" -> Ok(PyInt(v.h \div 2))
      [] v.py = "bool"  -> Ok(PyInt(IF v.b THEN 1 ELSE 0))
      [] v.py = "str"   -> IF IsDigit(v.t) THEN Ok(PyInt(ParseNat(v.t))) ELSE Raise
      [] OTHER          -> Raise

\* float(value), line 155
ToFloat(v) ==
    CASE v.py = "float" -> Ok(v)
      [] v.py = "int"   -> Ok(PyFloat(2 * v.n))
      [] v.py = "bool"  -> Ok(PyFloat(IF v.b THEN 2 ELSE 0))
      [] v.py = "str"   ->
            IF IsDigit(v.t) THEN Ok(PyFloat(2 * ParseNat(v.t)))
            ELSE IF WholePart(v.t) # None
                 THEN Ok(PyFloat(2 * ParseNat(Val(WholePart(v.t)))
                                   + (IF v.t[Len(v.t)] = "5" THEN 1 ELSE 0)))
                 ELSE Raise
      [] OTHER          -> Raise

\* type annotations
TStr == [k |-> "str"]
TInt == [k |-> "int"]
TFloat == [k |-> "float"]
TBool == [k |-> "bool"]
TLiteral == [k |-> "Literal"]
TDict == [k |-> "Dict"]
TOptional(a) == [k |-> "Optional", of |-> a]
TList(a) == [k |-> "List", of |-> a]
TModel(name) == [k |-> "Model", name |-> name]

\* a field: name, alias ("" for none), annotation, default (None: required)
Field(name, alias, ann, default) == [name |-> name, alias |-> alias, ann |-> ann, default |-> default]

Optional(name, a) == Field(name, "", TOptional(a), Some(PyNone))
Required(name, a) == Field(name, "", a, None)

\* eejx/schema/models.py: the fields of each class, in declaration order
Fields(cls) ==
    CASE cls = "Provenance" ->
            <<Required("source_id", TStr), Optional("page", TInt),
              Optional("bbox", TList(TFloat)), Optional("text", TStr),
              Optional("confidence", TFloat)>>
      [] cls = "OCPD" -> <<Required("type", TLiteral), Optional("rating_A", TFloat)>>
      [] cls = "Cable" ->
            <<Required("conductor", TLiteral), Required("size_awg", TStr),
              Field("qty_per_phase", "", TInt, Some(PyInt(1))),
              Optional("egc_awg", TStr), Optional("length_ft", TFloat)>>
      [] cls = "Node" ->
            <<Required("id", TStr), Required("type", TLiteral), Optional("name", TStr),
              Optional("voltage_ll_V", TFloat), Optional("phases", TLiteral),
              Optional("rating_A", TFloat), Optional("mlo", TBool), Optional("xfmr", TDict),
              Optional("load", TDict), Optional("provenance", TModel("Provenance"))>>
      [] cls = "Edge" ->
            <<Field("from_", "from", TStr, None), Required("to", TStr),
              Optional("ocpd", TModel("OCPD")), Optional("cable", TModel("Cable")),
              Optional("provenance", TModel("Provenance"))>>
      [] cls = "PanelEntry" ->
            <<Required("ckt", TStr), Required("desc", TStr), Optional("kVA", TFloat),
              Optional("kW", TFloat), Optional("continuous", TBool),
              Optional("provenance", TModel("Provenance"))>>
      [] cls = "PanelSchedule" ->
            <<Required("panel_id", TStr),
              Field("entries", "", TList(TModel("PanelEntry")), Some(PyList(<<>>)))>>
      [] cls = "CodeCtx" ->
            <<Required("nec_year", TInt), Required("jurisdiction", TStr),
              Field("amendments", "", TList(TStr), Some(PyList(<<>>)))>>
      [] cls = "ProjectCtx" -> <<Required("name", TStr), Required("code", TModel("CodeCtx"))>>
      [] cls = "AnalysisFlags" ->
            <<Field("load", "", TBool, Some(PyBool(TRUE))),
              Field("voltage_drop", "", TBool, Some(PyBool(TRUE))),
              Field("short_circuit", "", TBool, Some(PyBool(FALSE)))>>
      [] cls = "ShortCircuitCtx" -> <<Optional("service_available_fault_kA", TFloat)>>
      [] cls = "ProjectGraph" ->
            <<Field("schema_version", "", TStr, Some(PyStr(<<"0", ".", "1", ".", "0">>))),
              Required("project", TModel("ProjectCtx")),
              Required("analysis_flags", TModel("AnalysisFlags")),
              Field("assumptions", "", TList(TDict), Some(PyList(<<>>))),
              Field("sources", "", TList(TDict), Some(PyList(<<>>))),
              Required("nodes", TList(TModel("Node"))),
              Required("edges", TList(TModel("Edge"))),
              Field("panel_schedules", "", TList(TModel("PanelSchedule")), Some(PyList(<<>>))),
              Optional("short_circuit", TModel("ShortCircuitCtx"))>>

FieldNames(cls) == {Fields(cls)[i].name : i \in 1..Len(Fields(cls))}
FieldOf(cls, name) == Fields(cls)[CHOOSE i \in 1..Len(Fields(cls)) : Fields(cls)[i].name = name]

\* the items a for loop over the value visits: the elements of a list, the
\* characters of a str; a number, a bool or a model is not iterable
Iterate(v) ==
    CASE v.py = "list" -> Ok(v)
      [] v.py = "str"  -> Ok(PyList([i \in 1..Len(v.t) |-> PyStr(<<v.t[i]>>)]))
      [] v.py \in {"int", "float", "bool", "model"} -> Raise

RECURSIVE Convert(_, _)
RECURSIVE ParseObj(_, _)
RECURSIVE ModelInit(_, _)

\* BaseModel.__init__ reading only the alias of an aliased field
RECURSIVE ModelInitAliasOnly(_, _)
ModelInitAliasOnly(cls, kw) ==
    LET fs == Fields(cls)
        Raw(i) == IF fs[i].alias # "" THEN (IF fs[i].alias \in DOMAIN kw THEN Some(kw[fs[i].alias]) ELSE fs[i].default)
                  ELSE IF fs[i].name \in DOMAIN kw THEN Some(kw[fs[i].name])
                  ELSE fs[i].default
        conv == [i \in 1..Len(fs) |->
                    IF Raw(i) = None THEN Raise ELSE Convert(fs[i].ann, Val(Raw(i)))]
    IN IF \E i \in 1..Len(fs) : conv[i].raised THEN Raise
       ELSE Ok(PyModel(cls, [n \in FieldNames(cls) |->
                    conv[CHOOSE i \in 1..Len(fs) : fs[i].name = n].value]))

\* BaseModel.__init__, lines 59-92: every field is read under its alias,
\* else under its name, else from its default, and converted; a missing
\* required field or a failed conversion makes a ValidationError
ModelInit(cls, kw) ==
    LET fs == Fields(cls)
        Raw(i) == IF fs[i].alias # "" /\ fs[i].alias \in DOMAIN kw THEN Some(kw[fs[i].alias])
                  ELSE IF fs[i].name \in DOMAIN kw THEN Some(kw[fs[i].name])
                  ELSE fs[i].default
        conv == [i \in 1..Len(fs) |->
                    IF Raw(i) = None THEN Raise ELSE Convert(fs[i].ann, Val(Raw(i)))]
    IN IF \E i \in 1..Len(fs) : conv[i].raised THEN Raise
       ELSE Ok(PyModel(cls, [n \in FieldNames(cls) |->
                    conv[CHOOSE i \in 1..Len(fs) : fs[i].name = n].value]))

\* BaseModel.parse_obj, lines 94-100
ParseObj(cls, obj) ==
    IF obj.py = "model" /\ obj.cls = cls THEN Ok(obj)
    ELSE IF obj.py # "dict" THEN Raise
    ELSE ModelInit(cls, obj.d)

\* BaseModel._convert, lines 125-156
Convert(ann, value) ==
    CASE ann.k = "List" ->
            IF ~Truthy(value) THEN Ok(PyList(<<>>))
            ELSE IF Iterate(value).raised THEN Raise
            ELSE LET items == Iterate(value).value.items
                     conv == [i \in 1..Len(items) |-> Convert(ann.of, items[i])]
                 IN IF \E i \in 1..Len(items) : conv[i].raised THEN Raise
                    ELSE Ok(PyList([i \in 1..Len(items) |-> conv[i].value]))
      [] ann.k = "Dict" ->
            IF value.py = "dict" THEN Ok(value)
            ELSE IF value.py \in {"str", "list"} /\ ~Truthy(value) THEN Ok(PyDict(EmptyDict))
            ELSE Raise
      [] ann.k = "Optional" ->
            LET inner == Convert(ann.of, value)
            IN IF ~inner.raised THEN inner ELSE Ok(value)
      [] ann.k = "Literal" -> Ok(value)
      [] ann.k = "Model" -> ParseObj(ann.name, value)
      [] ann.k = "str" -> ToStr(value)
      [] ann.k = "int" -> ToInt(value)
      [] ann.k = "float" -> ToFloat(value)
      [] ann.k = "bool" -> Ok(PyBool(Truthy(value)))

RECURSIVE Dict(_, _)
\* BaseModel.dict, lines 102-112, and _serialize, lines 114-118
Dict(model, by_alias) ==
    LET fs == Fields(model.cls)
        Key(i) == IF by_alias /\ fs[i].alias # "" THEN fs[i].alias ELSE fs[i].name
        Serialize(item) == IF item.py = "model" THEN Dict(item, by_alias) ELSE item
        Dumped(v) ==
            IF v.py = "model" THEN Dict(v, by_alias)
            ELSE IF v.py = "list" THEN PyList([j \in 1..Len(v.items) |-> Serialize(v.items[j])])
            ELSE v
    IN PyDict([k \in {Key(i) : i \in 1..Len(fs)} |->
                  Dumped(model.f[fs[CHOOSE i \in 1..Len(fs) : Key(i) = k].name])])
---------------------------------------------------------------------------
(* eejx/cli.py: the validate command.  The loaded instance is read into the *)
(* graph variables of the validators; a field the loader left with a value  *)
(* of the wrong type is read as unset there, and the exception it raises    *)
(* in a validator is a step of its own.                                     *)

Spelled == {"S", "A", "B", "C", "X", "AB", "BC", "CA", "ABC", "", "Cu", "Al", "panel", "load", "breaker", "fuse"}

\* the string that a sequence of characters spells
Unspell(t) == CHOOSE s \in Spelled : Text(s) = t

\* an Optional[float] field that holds a float, else unset
FloatField(v) == IF v.py = "float" THEN Some(v.h \div 2) ELSE None

\* a float field that holds neither None nor a float
IllTyped(v) == v.py \notin {"None", "float"}

\* a number under a key of a load dict
LoadNumber(d, k) ==
    IF k \notin DOMAIN d THEN None
    ELSE CASE d[k].py = "None"  -> None
           [] d[k].py = "int"   -> Some(d[k].n)
           [] d[k].py = "float" -> Some(d[k].h \div 2)

NodeFrom(m) ==
    Node(Unspell(m.f.id.t), Unspell(m.f.type.t), FloatField(m.f.voltage_ll_V),
         CASE m.f.phases.py = "None" -> None
           [] m.f.phases.py = "str"  -> Some(Unspell(m.f.phases.t)),
         FloatField(m.f.rating_A), Some(m.f.mlo.b),
         CASE m.f.load.py = "None" -> None
           [] m.f.load.py = "dict" ->
                 Load(LoadNumber(m.f.load.d, "kVA"), LoadNumber(m.f.load.d, "kW"),
                      LoadNumber(m.f.load.d, "pf"), None))

EdgeFrom(m) ==
    Edge(Unspell(m.f.from_.t), Unspell(m.f.to.t),
         CASE m.f.ocpd.py = "None"  -> None
           [] m.f.ocpd.py = "model" ->
                 OCPD(Unspell(m.f.ocpd.f.type.t), FloatField(m.f.ocpd.f.rating_A)),
         CASE m.f.cable.py \in {"None", "dict"} -> None
           [] m.f.cable.py = "model" ->
                 Cable(Unspell(m.f.cable.f.conductor.t), m.f.cable.f.size_awg.t,
                       m.f.cable.f.qty_per_phase.n, FloatField(m.f.cable.f.length_ft)))

EntryFrom(m) ==
    PanelEntry(m.f.ckt.t, m.f.desc.t, FloatField(m.f.kVA), FloatField(m.f.kW),
               Some(m.f.continuous.b))

ScheduleFrom(m) ==
    PanelSchedule(Unspell(m.f.panel_id.t),
                  [i \in 1..Len(m.f.entries.items) |-> EntryFrom(m.f.entries.items[i])])

FlagsFrom(m) == AnalysisFlags(m.f.load.b, m.f.voltage_drop.b, m.f.short_circuit.b)

ContextFrom(v) ==
    CASE v.py = "None"  -> None
      [] v.py = "model" -> ShortCircuitCtx(FloatField(v.f.service_available_fault_kA))

\* the node instance of an id (node_map of the validators), if any
RawNodeOf(id) ==
    LET ns == project_graph.f.nodes.items
        at == {i \in 1..Len(ns) : Unspell(ns[i].f.id.t) = id}
    IN IF at = {} THEN None ELSE Some(ns[CHOOSE i \in at : \A j \in at : j <= i])

\* core.py lines 107-113: math.isclose raises TypeError on a voltage that
\* is not a number, once both voltages are truthy
VoltageRaises(i) ==
    LET upstream == RawNodeOf(edges[i].from_)
        downstream == RawNodeOf(edges[i].to)
    IN /\ upstream # None /\ downstream # None
       /\ Truthy(Val(upstream).f.voltage_ll_V) /\ Truthy(Val(downstream).f.voltage_ll_V)
       /\ (IllTyped(Val(upstream).f.voltage_ll_V) \/ IllTyped(Val(downstream).f.voltage_ll_V))

\* core.py lines 245-259: once the edge has an OCPD with a rating, reading
\* size_awg raises AttributeError on a cable the loader left as a dict, and
\* the comparison with the effective ampacity raises TypeError on a rating
\* that is not a number, once the table has the size
AmpacityRaises(i) ==
    LET raw == project_graph.f.edges.items[i]
        edge == edges[i]
    IN /\ raw.f.ocpd.py = "model" /\ raw.f.ocpd.f.rating_A # PyNone
       /\ \/ raw.f.cable.py = "dict" /\ Truthy(raw.f.cable)
          \/ /\ IllTyped(raw.f.ocpd.f.rating_A)
             /\ ~IsNone(edge.cable)
             /\ LET normalized == NormalizeConductorSize(Val(edge.cable).size_awg)
                IN /\ ~IsNone(normalized)
                   /\ Val(normalized) \in DOMAIN AMPACITY_TABLE[Val(edge.cable).conductor]

\* does validator(graph) raise
ValidatorRaises(name) ==
    CASE name = "VoltagePhaseValidator" -> \E i \in 1..Len(edges) : VoltageRaises(i)
      [] name = "AmpacityValidator"     -> \E i \in 1..Len(edges) : AmpacityRaises(i)
      [] OTHER                          -> FALSE

\* lines 38-40: load_project_graph(data) returns the instance
CLI_Load ==
    /\ pc = "cli"
    /\ LET loaded == ParseObj("ProjectGraph", data)
       IN /\ ~loaded.raised
          /\ project_graph' = loaded.value
          /\ nodes' = [i \in 1..Len(loaded.value.f.nodes.items) |->
                          NodeFrom(loaded.value.f.nodes.items[i])]
          /\ edges' = [i \in 1..Len(loaded.value.f.edges.items) |->
                          EdgeFrom(loaded.value.f.edges.items[i])]
          /\ panel_schedules' = [i \in 1..Len(loaded.value.f.panel_schedules.items) |->
                                    ScheduleFrom(loaded.value.f.panel_schedules.items[i])]
          /\ analysis_flags' = FlagsFrom(loaded.value.f.analysis_flags)
          /\ short_circuit' = ContextFrom(loaded.value.f.short_circuit)
    /\ pc' = "start"
    /\ UNCHANGED <<load_results, load_currents, lcVars, valVars, vdVars, tapVars, sccVars,
                   args, data, exit_code, results>>

\* lines 41-44: ValidationErrorWrapper, typer.Exit(code=1)
CLI_SchemaFailed ==
    /\ pc = "cli"
    /\ ParseObj("ProjectGraph", data).raised
    /\ exit_code' = Some(1)
    /\ pc' = "exit"
    /\ UNCHANGED <<graphVars, lcVars, valVars, vdVars, tapVars, sccVars, args, data,
                   project_graph, results>>

\* line 46: one validator of validate_project returns its issues
CLI_Validate ==
    /\ pc = "validate"
    /\ vidx <= Len(VALIDATORS)
    /\ ~ValidatorRaises(VALIDATORS[vidx])
    /\ VP_Run

\* line 46: a validator raises; the exception leaves the command and the
\* interpreter exits with code 1
CLI_Uncaught ==
    /\ pc = "validate"
    /\ vidx <= Len(VALIDATORS)
    /\ ValidatorRaises(VALIDATORS[vidx])
    /\ exit_code' = Some(1)
    /\ pc' = "exit"
    /\ UNCHANGED <<graphVars, lcVars, valVars, vdVars, tapVars, sccVars, args, data,
                   project_graph, results>>

\* lines 54-55
CLI_Exit ==
    /\ pc = "done"
    /\ exit_code' = Some(IF \E k \in 1..Len(results) : results[k].severity = "ERROR"
                         THEN 1 ELSE 0)
    /\ pc' = "exit"
    /\ UNCHANGED <<graphVars, lcVars, valVars, vdVars, tapVars, sccVars, args, data,
                   project_graph, results>>

NextCli ==
    \/ CLI_Load \/ CLI_SchemaFailed \/ VP_Start \/ CLI_Validate \/ CLI_Uncaught
    \/ VP_Return \/ CLI_Exit
---------------------------------------------------------------------------
(* Documents given to the validate command                                 *)

Chars(s) == PyStr(Text(s))

RawProject ==
    PyDict([name |-> PyStr(<<"p">>),
            code |-> PyDict([nec_year |-> PyInt(2020), jurisdiction |-> PyStr(<<"X">>)])])

\* node A: voltage as a number, as digits, as text with a unit, or null
RawUpstream ==
    {PyDict([id |-> Chars("A"), type |-> Chars("panel"), voltage_ll_V |-> v]) :
        v \in {PyInt(480), PyStr(<<"4", "8", "0">>), PyStr(<<"4", "8", "0", "V">>), PyNone}}

\* node B: a panel with or without mlo, voltage 208.0, text with a unit, or
\* absent
RawDownstream ==
    {PyDict([id |-> Chars("B"), type |-> Chars("panel"), voltage_ll_V |-> v]) :
        v \in {PyFloat(416), PyStr(<<"4", "8", "0", "V">>)}}
    \cup {PyDict([id |-> Chars("B"), type |-> Chars("panel"), mlo |-> PyBool(TRUE),
                  phases |-> Chars("AB"), load |-> PyDict([kVA |-> PyInt(5)])])}

RawCable(size, qty) ==
    PyDict([conductor |-> Chars("Cu"), size_awg |-> PyStr(size), qty_per_phase |-> qty])

RawFuse(rating) == PyDict([type |-> Chars("fuse"), rating_A |-> rating])

\* the edges: none; a bare feeder under the alias and under the field name;
\* a 400 A fuse on 250 kcmil; a fuse rated "100A" with and without cable; a
\* cable whose quantity is not a number; a feeder from an unknown node
RawEdgeLists ==
    {PyList(<<>>),
     PyList(<<PyDict([from |-> Chars("A"), to |-> Chars("B")])>>),
     PyList(<<PyDict([from_ |-> Chars("A"), to |-> Chars("B"), ocpd |-> PyNone])>>),
     PyList(<<PyDict([from |-> Chars("A"), to |-> Chars("B"), ocpd |-> RawFuse(PyInt(400)),
                      cable |-> RawCable(<<"2", "5", "0">>, PyInt(1))])>>),
     PyList(<<PyDict([from |-> Chars("A"), to |-> Chars("B"),
                      ocpd |-> RawFuse(PyStr(<<"1", "0", "0", "A">>)),
                      cable |-> RawCable(<<"#", "1">>, PyStr(<<"2">>))])>>),
     PyList(<<PyDict([from |-> Chars("A"), to |-> Chars("B"),
                      ocpd |-> RawFuse(PyStr(<<"1", "0", "0", "A">>))])>>),
     PyList(<<PyDict([from |-> Chars("A"), to |-> Chars("B"), ocpd |-> RawFuse(PyInt(100)),
                      cable |-> RawCable(<<"#", "1">>, PyStr(<<"t", "w", "o">>))])>>),
     PyList(<<PyDict([from |-> Chars("X"), to |-> Chars("B"), ocpd |-> RawFuse(PyNone)])>>),
     PyList(<<PyDict([to |-> Chars("B")])>>)}

RawFlags == {PyDict(EmptyDict), PyDict([short_circuit |-> PyBool(TRUE), load |-> PyInt(0)])}

RawContexts == {PyNone, PyDict([service_available_fault_kA |-> PyInt(30)])}

\* whole documents, documents without short_circuit or without nodes, and a
\* document that is a list
Documents ==
    {PyDict([project |-> RawProject, analysis_flags |-> fl, nodes |-> PyList(<<a, b>>),
             edges |-> es, short_circuit |-> sc]) :
        a \in RawUpstream, b \in RawDownstream, es \in RawEdgeLists, fl \in RawFlags,
        sc \in RawContexts}
    \cup {PyDict([project |-> RawProject, analysis_flags |-> fl, nodes |-> PyList(<<a>>),
                  edges |-> PyNone]) : a \in RawUpstream, fl \in RawFlags}
    \cup {PyDict([project |-> RawProject, analysis_flags |-> fl, edges |-> es]) :
             es \in RawEdgeLists, fl \in RawFlags}
    \cup {PyList(<<PyInt(1)>>)}

InitCli ==
    /\ pc = "cli"
    /\ data \in Documents
    /\ nodes = <<>>
    /\ edges = <<>>
    /\ panel_schedules = <<>>
    /\ DefaultContext
    /\ base_loads = <<>> /\ indegree = <<>> /\ queue = <<>> /\ order = <<>>
    /\ pending = <<>> /\ aggregated = <<>>
    /\ issues = <<>> /\ vidx = 1
    /\ per_edge = <<>> /\ per_path = <<>> /\ memo = <<>> /\ stack = <<>> /\ node_idx = 1
    /\ rows = <<>> /\ edge_idx = 1
    /\ results = <<>>
    /\ project_graph = <<>> /\ exit_code = <<>>
    /\ z_map = <<>> /\ seen_edges = {} /\ args = <<>>

SpecCli == InitCli /\ [][NextCli]_vars

---------------------------------------------------------------------------
(* C12: the validate command exits with a nonzero code exactly when the     *)
(* document fails schema loading or a returned issue has severity ERROR,    *)
(* and with 0 when every issue is a WARNING or there are none.              *)

SchemaLoadingFails == ParseObj("ProjectGraph", data).raised

C12_ExitCodeFollowsIssues ==
    pc = "exit" =>
        /\ exit_code # None
        /\ (Val(exit_code) # 0) <=> (SchemaLoadingFails \/ HasError(results))

\* the command exits 1 on a schema failure and on an ERROR, 0 on warnings
\* alone, whenever validate_project returns
C12_ExitCodeWhenValidatorsReturn ==
    pc = "exit" /\ (SchemaLoadingFails \/ vidx > Len(VALIDATORS)) =>
        Val(exit_code) = IF SchemaLoadingFails \/ HasError(results) THEN 1 ELSE 0
---------------------------------------------------------------------------
(* ee_mvp/scc.py and the impedance tables of ee_mvp/nec.py.                 *)
(* Resistance and reactance per 1000 ft count 0.0001 ohm; an impedance is   *)
(* a record [r, x] counting 0.00001 ohm, rounded down; a fault current      *)
(* counts amperes.                                                          *)

\* _OHMS_PER_KFT_R, keyed by normalized material and size
OHMS_PER_KFT_R ==
    [CU |-> [s \in {"#3", "#2", "#1", "1/0", "2/0", "3/0", "4/0", "250", "300", "350",
                   "400", "500", "600"} |->
                CASE s = "#3" -> 1970 [] s = "#2" -> 1563 [] s = "#1" -> 1249
                  [] s = "1/0" -> 990 [] s = "2/0" -> 785 [] s = "3/0" -> 624
                  [] s = "4/0" -> 495 [] s = "250" -> 410 [] s = "300" -> 345
                  [] s = "350" -> 298 [] s = "400" -> 260 [] s = "500" -> 209
                  [] s = "600" -> 174],
     AL |-> [s \in {"1/0", "2/0", "3/0", "4/0", "250", "300", "350", "400", "500", "600"} |->
                CASE s = "1/0" -> 1580 [] s = "2/0" -> 1250 [] s = "3/0" -> 990
                  [] s = "4/0" -> 780 [] s = "250" -> 670 [] s = "300" -> 560
                  [] s = "350" -> 480 [] s = "400" -> 430 [] s = "500" -> 340
                  [] s = "600" -> 290]]

\* _INSTALLATION_X_PER_KFT
INSTALLATION_X_PER_KFT == [EMT |-> 850, PVC |-> 650, RMC |-> 900]

StartsWith(t, prefix) == Len(t) >= Len(prefix) /\ SubSeq(t, 1, Len(prefix)) = prefix

\* _normalize_material; None where it raises TableLookupError
NormalizeMaterial(material) ==
    LET mat == Upper(Strip(Text(material)))
    IN IF StartsWith(mat, <<"C", "U">>) THEN Some("CU")
       ELSE IF StartsWith(mat, <<"A", "L">>) THEN Some("AL")
       ELSE None

\* resistance_per_kft; None where it raises TableLookupError
ResistancePerKft(material, size_awg) ==
    LET mat == NormalizeMaterial(material)
    IN IF mat = None THEN None
       ELSE IF size_awg \notin DOMAIN OHMS_PER_KFT_R[Val(mat)] THEN None
       ELSE Some(OHMS_PER_KFT_R[Val(mat)][size_awg])

InstallationNames == {"EMT", "PVC", "RMC"}

\* reactance_per_kft; None where it raises TableLookupError
ReactancePerKft(installation) ==
    LET inst == Upper(Strip(Text(installation)))
    IN IF \E n \in InstallationNames : Text(n) = inst
       THEN Some(INSTALLATION_X_PER_KFT[CHOOSE n \in InstallationNames : Text(n) = inst])
       ELSE None

Complex(r, x) == [r |-> r, x |-> x]

\* ee_mvp.models.Cable, the fields the impedance reads
SccCable(conductor, size_awg, qty_per_phase, installation, length_ft) ==
    Some([conductor |-> conductor, size_awg |-> size_awg, qty_per_phase |-> qty_per_phase,
          installation |-> installation, length_ft |-> length_ft])

\* ee_mvp.models.Node, the fields available_fault reads
SccNode(id, voltage_ll_V, pri_V, sec_V, available_fault_kA) ==
    [id |-> id, voltage_ll_V |-> voltage_ll_V, pri_V |-> pri_V, sec_V |-> sec_V,
     available_fault_kA |-> available_fault_kA]

\* a or b on Optional[float]
OrElse(a, b) == IF TruthyNumber(a) THEN a ELSE b

\* _edge_impedance, lines 17-24; None where a lookup raises TableLookupError
EdgeImpedance(edge) ==
    IF IsNone(edge.cable) THEN Some(Complex(0, 0))
    ELSE LET cable == Val(edge.cable)
         IN IF ~TruthyNumber(cable.length_ft) \/ cable.size_awg = "" THEN Some(Complex(0, 0))
            ELSE LET qty == IF cable.qty_per_phase > 1 THEN cable.qty_per_phase ELSE 1
                     r == ResistancePerKft(cable.conductor, cable.size_awg)
                     x == ReactancePerKft(cable.installation)
                 IN IF r = None \/ x = None THEN None
                    ELSE Some(Complex((Val(r) * Val(cable.length_ft)) \div (100 * qty),
                                      (Val(x) * Val(cable.length_ft)) \div (100 * qty)))

\* is the node given a Thevenin impedance by _initial_impedance
Seeded(node) ==
    /\ TruthyNumber(OrElse(node.voltage_ll_V, OrElse(node.pri_V, node.sec_V)))
    /\ TruthyNumber(node.available_fault_kA)

\* lines 31-36: voltage / (SQRT3 * i) with i in amperes
SeedImpedance(node) ==
    LET voltage == Val(OrElse(node.voltage_ll_V, OrElse(node.pri_V, node.sec_V)))
    IN Complex((voltage * 100000) \div (SQRT3 * Val(node.available_fault_kA)), 0)

RECURSIVE InitialImpedanceOf(_, _)
\* _initial_impedance over the nodes ns, added to the dict values
InitialImpedanceOf(ns, values) ==
    IF ns = <<>> THEN values
    ELSE InitialImpedanceOf(Tail(ns),
            IF Seeded(Head(ns)) THEN Put(values, Head(ns).id, SeedImpedance(Head(ns)))
            ELSE values)

\* the keys of the initial z_map in insertion order
RECURSIVE InitialKeys(_, _)
InitialKeys(ns, keys) ==
    IF ns = <<>> THEN keys
    ELSE InitialKeys(Tail(ns),
            IF Seeded(Head(ns)) /\ Head(ns).id \notin Range(keys)
            THEN Append(keys, Head(ns).id) ELSE keys)

\* the edges entering a node, in place of the edges leaving it
ParentEdges(parent_id) ==
    LET Enters(e) == e.to_id = parent_id
    IN SelectSeq(edges, Enters)

\* lines 42-44: children[parent_id], the edges leaving a node in edge order
ChildEdges(parent_id) ==
    LET Leaves(e) == e.from_id = parent_id
    IN SelectSeq(edges, Leaves)

RECURSIVE TraverseAgain(_, _, _)
\* a variant of lines 52-59 without the test of line 54: an edge is followed
\* whether or not its key is in seen
TraverseAgain(st, parent_z, es) ==
    IF es = <<>> \/ st.raised THEN st
    ELSE LET edge == Head(es)
             key == <<edge.from_id, edge.to_id>>
         IN IF EdgeImpedance(edge) = None
            THEN [st EXCEPT !.raised = TRUE]
            ELSE TraverseAgain(
                    [z |-> Put(st.z, edge.to_id,
                               Complex(parent_z.r + Val(EdgeImpedance(edge)).r,
                                       parent_z.x + Val(EdgeImpedance(edge)).x)),
                     seen |-> st.seen \cup {key},
                     queue |-> Append(st.queue, edge.to_id),
                     raised |-> FALSE],
                    parent_z, Tail(es))

RECURSIVE Traverse(_, _, _)
\* lines 52-59: the loop over the edges leaving the parent; raised is set
\* where _edge_impedance raises
Traverse(st, parent_z, es) ==
    IF es = <<>> \/ st.raised THEN st
    ELSE LET edge == Head(es)
             key == <<edge.from_id, edge.to_id>>
         IN IF key \in st.seen THEN Traverse(st, parent_z, Tail(es))
            ELSE IF EdgeImpedance(edge) = None
            THEN [st EXCEPT !.raised = TRUE]
            ELSE Traverse(
                    [z |-> Put(st.z, edge.to_id,
                               Complex(parent_z.r + Val(EdgeImpedance(edge)).r,
                                       parent_z.x + Val(EdgeImpedance(edge)).x)),
                     seen |-> st.seen \cup {key},
                     queue |-> Append(st.queue, edge.to_id),
                     raised |-> FALSE],
                    parent_z, Tail(es))

\* the state of the loop after the parent at the head of the queue
AfterPop ==
    LET parent_id == Head(queue)
        st == [z |-> z_map, seen |-> seen_edges, queue |-> Tail(queue), raised |-> FALSE]
    IN IF parent_id \notin DOMAIN z_map THEN st
       ELSE Traverse(st, z_map[parent_id], ChildEdges(parent_id))

RECURSIVE ISqrtFrom(_, _)
ISqrtFrom(n, k) == IF (k + 1) * (k + 1) > n THEN k ELSE ISqrtFrom(n, k + 1)

RECURSIVE ISqrt(_)
\* the whole part of the square root
ISqrt(n) == IF n < 100 THEN ISqrtFrom(n, 0) ELSE ISqrtFrom(n, 10 * ISqrt(n \div 100))

\* abs(z)
Magnitude(z) == IF z.x = 0 THEN z.r ELSE ISqrt(z.r * z.r + z.x * z.x)

\* lines 61-69: the row of a node, if it gets one
FaultRow(node) ==
    LET voltage == OrElse(node.voltage_ll_V, OrElse(node.sec_V, node.pri_V))
    IN IF node.id \notin DOMAIN z_map \/ z_map[node.id] = Complex(0, 0) THEN <<>>
       ELSE IF ~TruthyNumber(voltage) THEN <<>>
       ELSE <<[bus |-> node.id,
               available_fault_A |->
                   (((Val(voltage) * 100000) \div Magnitude(z_map[node.id])) * 1000) \div SQRT3,
               Z_th_ohm |-> Magnitude(z_map[node.id])]>>

\* lines 40-46
AF_Start ==
    /\ pc = "start"
    /\ z_map' = InitialImpedanceOf(nodes, <<>>)
    /\ queue' = InitialKeys(nodes, <<>>)
    /\ seen_edges' = {}
    /\ pc' = "bfs"
    /\ UNCHANGED <<graphVars, valVars, vdVars, tapVars, cliVars, args, base_loads, indegree,
                   order, pending, aggregated, results>>

\* lines 47-59: one pass of the while loop
AF_Pop ==
    /\ pc = "bfs"
    /\ queue # <<>>
    /\ ~AfterPop.raised
    /\ z_map' = AfterPop.z
    /\ seen_edges' = AfterPop.seen
    /\ queue' = AfterPop.queue
    /\ UNCHANGED <<graphVars, valVars, vdVars, tapVars, cliVars, args, base_loads, indegree,
                   order, pending, aggregated, results, pc>>

\* line 58: _edge_impedance raises TableLookupError out of available_fault
AF_TableLookupError ==
    /\ pc = "bfs"
    /\ queue # <<>>
    /\ AfterPop.raised
    /\ pc' = "TableLookupError"
    /\ UNCHANGED <<graphVars, valVars, vdVars, tapVars, cliVars, sccVars, args, lcVars,
                   results>>

\* lines 60-70
AF_Return ==
    /\ pc = "bfs"
    /\ queue = <<>>
    /\ results' = Flatten([i \in 1..Len(nodes) |-> FaultRow(nodes[i])])
    /\ pc' = "done"
    /\ UNCHANGED <<graphVars, valVars, vdVars, tapVars, cliVars, sccVars, args, lcVars>>

NextFault == AF_Start \/ AF_Pop \/ AF_TableLookupError \/ AF_Return
---------------------------------------------------------------------------
(* Inputs of available_fault: a service S, buses A, B and C with varied     *)
(* voltage and fault data, and feeders of pairwise different impedance,     *)
(* among them a self-loop, a feeder through an id X that is no node and a   *)
(* feeder whose size the resistance table lacks                             *)

MaxFaultEdges == 3

FaultNodeLists ==
    {<<s, a, b, SccNode("C", None, Some(480), Some(208), None)>> :
        s \in {SccNode("S", Some(480), None, None, Some(30)),
               SccNode("S", Some(480), None, None, Some(0))},
        a \in {SccNode("A", Some(480), None, None, None),
               SccNode("A", None, None, None, None)},
        b \in {SccNode("B", Some(208), None, None, None),
               SccNode("B", Some(0), None, Some(208), Some(10))}}

Feeder(f, t, size, qty, installation, length) ==
    TapEdge(f, t, None, SccCable("Cu", size, qty, installation, Some(length)))

FaultEdges ==
    {Feeder("S", "A", "#1", 1, "EMT", 100),
     Feeder("S", "B", "1/0", 0, "pvc", 50),
     Feeder("B", "A", "250", 2, "PVC", 10),
     Feeder("A", "C", "#3", 1, "RMC", 200),
     Feeder("A", "A", "500", 1, "EMT", 20),
     TapEdge("S", "X", None, None),
     Feeder("X", "C", "#14", 1, "EMT", 30)}

FaultEdgeLists == SeqsUpTo(FaultEdges, MaxFaultEdges)

InitFault ==
    /\ nodes \in FaultNodeLists
    /\ edges \in FaultEdgeLists
    /\ panel_schedules = <<>>
    /\ DefaultContext
    /\ InitWork

SpecFault == InitFault /\ [][NextFault]_vars

---------------------------------------------------------------------------
(* C13: available_fault returns a row for a node exactly when the node has  *)
(* a known voltage and is seeded (own voltage and available_fault_kA) or    *)
(* reachable along directed edges from a seeded node; each such node has    *)
(* one row and a node no seeded node reaches has none.                      *)

FaultPairs == {<<edges[i].from_id, edges[i].to_id>> : i \in 1..Len(edges)}

HasVoltage(node) ==
    \E v \in {node.voltage_ll_V, node.pri_V, node.sec_V} : v # None /\ Val(v) # 0

IsSeeded(node) == HasVoltage(node) /\ node.available_fault_kA \notin {None, Some(0)}

SeededIds == {nodes[i].id : i \in {j \in 1..Len(nodes) : IsSeeded(nodes[j])}}

\* the seeded ids and everything the edges lead to from them
FedFromSeed == IF SeededIds = {} THEN {} ELSE Closure(SeededIds, FaultPairs)

Buses(rws) == {rws[k].bus : k \in 1..Len(rws)}

C13_RowsAreTheReachableBuses ==
    pc = "done" =>
        /\ Buses(results)
              = {nodes[i].id : i \in {j \in 1..Len(nodes) :
                                         HasVoltage(nodes[j]) /\ nodes[j].id \in FedFromSeed}}
        /\ \A k, l \in 1..Len(results) : results[k].bus = results[l].bus => k = l

\* C is reached from the seeded service over two feeders and gets a row, B
\* is not reached and A has no voltage: neither gets a row
C13_Witness ==
    /\ pc = "done"
    /\ SeededIds = {"S"}
    /\ "C" \in Buses(results) /\ "S" \in Buses(results)
    /\ "B" \notin FedFromSeed /\ HasVoltage(nodes[3]) /\ "B" \notin Buses(results)
    /\ "A" \in FedFromSeed /\ ~HasVoltage(nodes[2]) /\ "A" \notin Buses(results)

---------------------------------------------------------------------------
(* run_short_circuit_stub: eejx/analysis/short_circuit.py                  *)

\* an entry that drops the fault current by one kA per entry already written
StubEntryReduced(base_fault) ==
    [I_sc_kA |-> base_fault - Cardinality(DOMAIN results), method |-> "stub"]

\* line 19: the entry written for a node
StubEntry(base_fault) == [I_sc_kA |-> base_fault, method |-> "stub"]

\* line 12: the early return of an empty per_node map
NoServiceFault ==
    IsNone(short_circuit) \/ IsNone(Val(short_circuit).service_available_fault_kA)

\* lines 12-16: return the empty map, or start the loop over the nodes
SS_Start ==
    /\ pc = "start"
    /\ results' = <<>>
    /\ node_idx' = 1
    /\ pc' = IF NoServiceFault THEN "done" ELSE "stub_loop"
    /\ UNCHANGED <<graphVars, lcVars, valVars, per_edge, per_path, memo, stack, tapVars,
                   cliVars, sccVars, args>>

\* lines 17-19: results[node.id] = {"I_sc_kA": base_fault, "method": "stub"}
SS_Node ==
    /\ pc = "stub_loop"
    /\ node_idx <= Len(nodes)
    /\ results' = Put(results, nodes[node_idx].id,
                      StubEntry(Val(Val(short_circuit).service_available_fault_kA)))
    /\ node_idx' = node_idx + 1
    /\ UNCHANGED <<graphVars, pc, lcVars, valVars, per_edge, per_path, memo, stack,
                   tapVars, cliVars, sccVars, args>>

\* line 20: return {"per_node": results}
SS_Return ==
    /\ pc = "stub_loop"
    /\ node_idx > Len(nodes)
    /\ pc' = "done"
    /\ UNCHANGED <<graphVars, lcVars, valVars, vdVars, tapVars, results, cliVars, sccVars,
                   args>>

NextStub == SS_Start \/ SS_Node \/ SS_Return

\* graphs of no to three nodes (one of them with an id carried twice), the
\* feeders of the validator inputs, and a service fault current that is
\* absent, unknown, 0 kA, 30 kA or 65 kA
StubNodeLists ==
    {<<>>, <<NodeA>>, <<NodeA, NodeA>>}
    \cup {<<a, b>> : a \in UpstreamNodes, b \in DownstreamNodes}
    \cup {<<NodeS, a, b>> : a \in UpstreamNodes, b \in DownstreamNodes}

InitStub ==
    /\ nodes \in StubNodeLists
    /\ edges \in ValidateEdgeLists
    /\ panel_schedules = <<>>
    /\ \E sc \in BOOLEAN : analysis_flags = AnalysisFlags(TRUE, TRUE, sc)
    /\ short_circuit \in {None, ShortCircuitCtx(None), ShortCircuitCtx(Some(0)),
                          ShortCircuitCtx(Some(30)), ShortCircuitCtx(Some(65))}
    /\ load_results = <<>>
    /\ load_currents = <<>>
    /\ InitWork

SpecStub == InitStub /\ [][NextStub]_vars

\* C14: when the stub has returned, per_node is empty if no service fault
\* current is given; otherwise it has one entry for every node id of the
\* graph and no other, each with I_sc_kA equal to the service value and
\* method "stub", whatever the edges are
C14_StubBroadcastsServiceFault ==
    pc = "done" =>
        IF NoServiceFault THEN results = <<>>
        ELSE /\ DOMAIN results = NodeIdSet
             /\ \A id \in NodeIdSet :
                   /\ results[id].I_sc_kA = Val(Val(short_circuit).service_available_fault_kA)
                   /\ results[id].method = "stub"

\* three nodes joined by a feeder into an unknown id all carry the 30 kA of
\* the service
C14_Witness ==
    /\ pc = "done"
    /\ short_circuit = ShortCircuitCtx(Some(30))
    /\ Len(nodes) = 3 /\ Len(edges) = 2
    /\ DOMAIN results = {"S", "A", "B"}
    /\ \A id \in {"S", "A", "B"} : results[id].I_sc_kA = 30

---------------------------------------------------------------------------
(* Inputs of the load calculation with missing optional node data          *)

\* a node with nothing but its id; a three-phase panel with rating and load;
\* a single-phase panel; a panel without rating; a panel without voltage;
\* a panel whose voltage and rating are both 0
SparseNodes(id) ==
    {Node(id, "panel", None, None, None, None, None),
     Node(id, "panel", Some(208), None, Some(100), None, Load(Some(1), None, None, None)),
     Node(id, "panel", Some(120), Some("A"), Some(20), None, Load(Some(1), None, None, None)),
     Node(id, "panel", Some(480), Some("ABC"), None, None, Load(None, Some(2), Some(80), Some(FALSE))),
     Node(id, "panel", None, Some("AB"), Some(225), None, Load(Some(4), Some(9), None, Some(TRUE))),
     Node(id, "panel", Some(0), None, Some(0), None, None)}

InitSparse ==
    /\ nodes \in {<<s, a, b>> : s \in SparseNodes("S"), a \in SparseNodes("A"),
                                b \in SparseNodes("B")}
    /\ edges \in SchedEdgeLists \cup {<<>>}
    /\ panel_schedules \in
          {<<>>, <<PanelSchedule("X", <<PanelEntry(<<"1">>, <<"z">>, Some(2), None, None)>>)>>}
    /\ DefaultContext
    /\ InitWork

SpecSparse == InitSparse /\ [][NextLoad]_vars

\* C15: when run_load_calc has returned, every node has a result with its
\* kVA_total; a node without voltage has I_A = None; margin_A is None when
\* I_A or rating_A is None, and is rating_A minus I_A otherwise
C15_MissingNodeDataGivesNone ==
    pc = "done" =>
        \A i \in 1..Len(nodes) :
            /\ nodes[i].id \in DOMAIN results
            /\ LET node == nodes[i]
                   res == results[node.id]
               IN /\ res.kVA_total = aggregated[node.id] /\ res.kVA_total \in Nat
                  /\ IsNone(node.voltage_ll_V) => IsNone(res.I_A)
                  /\ IsNone(res.I_A) \/ IsNone(node.rating_A) => IsNone(res.margin_A)
                  /\ ~IsNone(res.I_A) /\ ~IsNone(node.rating_A)
                        => res.margin_A = Some([rating |-> Val(node.rating_A),
                                                minus |-> Val(res.I_A)])

\* S has neither voltage nor rating, A has a rating but no voltage, B has
\* both: S and A get no current and no margin, B gets both, and all three
\* report the kVA rolled up to them
C15_Witness ==
    /\ pc = "done"
    /\ edges = <<E("S", "A"), E("A", "B")>>
    /\ IsNone(nodes[1].voltage_ll_V) /\ IsNone(nodes[1].rating_A)
    /\ IsNone(nodes[2].voltage_ll_V) /\ ~IsNone(nodes[2].rating_A)
    /\ IsNone(results["S"].I_A) /\ IsNone(results["S"].margin_A)
    /\ IsNone(results["A"].I_A) /\ IsNone(results["A"].margin_A)
    /\ ~IsNone(results["B"].I_A) /\ ~IsNone(results["B"].margin_A)
    /\ results["S"].kVA_total > results["B"].kVA_total
    /\ results["B"].kVA_total > 0

---------------------------------------------------------------------------
(* ee_mvp/vd.py and nec.percent_voltage_drop                               *)

\* the sizes of the resistance table in its order, nec.py lines 61-73
SizeOrder ==
    <<"#3", "#2", "#1", "1/0", "2/0", "3/0", "4/0", "250", "300", "350", "400", "500", "600">>

\* conductor_impedance: r and x as multiples of 1e-7 ohm over qty; None
\* where a table lookup raises TableLookupError
ConductorImpedance(material, size_awg, length_ft, installation, qty_per_phase) ==
    LET qty == IF qty_per_phase > 1 THEN qty_per_phase ELSE 1
        r == ResistancePerKft(material, size_awg)
        x == ReactancePerKft(installation)
    IN IF r = None \/ x = None THEN None
       ELSE Some([r |-> Val(r) * length_ft, x |-> Val(x) * length_ft, qty |-> qty])

\* max(0.0, min(1.0, pf)) on tenths
ClampPf(pf) == IF pf < 0 THEN 0 ELSE IF pf > 10 THEN 10 ELSE pf

\* sqrt(max(0.0, 1.0 - pf * pf)) on tenths, for the power factors whose sine
\* is a whole number of tenths (0, 0.6, 0.8 and 1)
SinPhi(pf) == ISqrt(100 - pf * pf)

\* a variant that weights the resistance with sin(phi) and the reactance
\* with the power factor
PercentVoltageDropSwapped(current_A, voltage_ll_V, z, pf) ==
    IF voltage_ll_V <= 0 THEN [num |-> 0, den |-> 1]
    ELSE [num |-> current_A * (z.r * SinPhi(ClampPf(pf)) + z.x * ClampPf(pf)),
          den |-> voltage_ll_V * z.qty]

\* percent_voltage_drop, nec.py lines 278-283: the result is
\* sqrt(3) * num / den * 1e-6 percent
PercentVoltageDrop(current_A, voltage_ll_V, z, pf) ==
    IF voltage_ll_V <= 0 THEN [num |-> 0, den |-> 1]
    ELSE [num |-> current_A * (z.r * ClampPf(pf) + z.x * SinPhi(ClampPf(pf))),
          den |-> voltage_ll_V * z.qty]

\* voltage_drop_percent, vd.py lines 25-36, on the arguments a and one size
VoltageDropPercent(a, size_awg) ==
    LET z == ConductorImpedance(a.material, size_awg, a.length_ft, a.installation,
                                a.qty_per_phase)
    IN IF z = None THEN None
       ELSE Some(PercentVoltageDrop(a.current_A, a.voltage_ll_V, Val(z), a.pf))

\* a < b on two results
DropLess(a, b) ==
    LET g == GCD(a.den, b.den)
    IN a.num * (b.den \div g) < b.num * (a.den \div g)

DropSame(a, b) == ~DropLess(a, b) /\ ~DropLess(b, a)

\* the call for the next size of the list returns
VDP_Call ==
    /\ pc = "start"
    /\ Len(results) < Len(args.sizes)
    /\ VoltageDropPercent(args, args.sizes[Len(results) + 1]) # None
    /\ results' = Append(results, Val(VoltageDropPercent(args, args.sizes[Len(results) + 1])))
    /\ UNCHANGED <<graphVars, pc, lcVars, valVars, vdVars, tapVars, cliVars, sccVars, args>>

\* the call for the next size raises TableLookupError
VDP_TableLookupError ==
    /\ pc = "start"
    /\ Len(results) < Len(args.sizes)
    /\ VoltageDropPercent(args, args.sizes[Len(results) + 1]) = None
    /\ pc' = "TableLookupError"
    /\ UNCHANGED <<graphVars, lcVars, valVars, vdVars, tapVars, cliVars, sccVars, args,
                   results>>

\* every size of the list has its drop
VDP_Done ==
    /\ pc = "start"
    /\ Len(results) = Len(args.sizes)
    /\ pc' = "done"
    /\ UNCHANGED <<graphVars, lcVars, valVars, vdVars, tapVars, cliVars, sccVars, args,
                   results>>

NextDrop == VDP_Call \/ VDP_TableLookupError \/ VDP_Done

\* no graph is involved in a call of the formula library
NoGraph ==
    /\ nodes = <<>>
    /\ edges = <<>>
    /\ panel_schedules = <<>>
    /\ DefaultContext

\* size lists: the whole table, the sizes the aluminium table has, and the
\* eight sizes of test_monotonicity.py
DropSizeLists == {SizeOrder, SubSeq(SizeOrder, 4, 13), SubSeq(SizeOrder, 1, 8)}

\* power factors in tenths; -5 and 15 are clamped
DropArgs ==
    [current_A : {0, 100, 250}, voltage_ll_V : {0, 208, 480}, material : {"Cu", "AL", "Au"},
     length_ft : {0, 100, 200}, installation : {"EMT", "pvc", "Au"}, qty_per_phase : {0, 1, 2},
     pf : {-5, 0, 6, 8, 10, 15}, sizes : DropSizeLists]

InitDrop ==
    /\ NoGraph
    /\ pc = "start"
    /\ InitAnalysis
    /\ args \in DropArgs

SpecDrop == InitDrop /\ [][NextDrop]_vars

\* the drop falls from each size to the next one
StrictlyDecreasing ==
    \A k \in 1..(Len(results) - 1) : DropLess(results[k + 1], results[k])

\* the drop is the same for every size
SameForEverySize ==
    \A k \in 1..(Len(results) - 1) : DropSame(results[k + 1], results[k])

\* C16 as stated: for a positive current, voltage and length and every
\* power factor in [0, 1], the drop is strictly decreasing through the
\* sizes of the resistance table
C16_DecreasingForEveryPf ==
    /\ args.current_A > 0 /\ args.voltage_ll_V > 0 /\ args.length_ft > 0
    /\ args.pf >= 0 /\ args.pf <= 10
    => StrictlyDecreasing

\* C16 amended: for a positive current, voltage and length the drop is
\* strictly decreasing through the sizes for every power factor above 0,
\* and it is the same for every size at a power factor of 0 or below, for a
\* current or length of 0 and for a voltage that is not positive
C16_DecreasingForPositivePf ==
    IF args.current_A > 0 /\ args.voltage_ll_V > 0 /\ args.length_ft > 0 /\ args.pf > 0
    THEN StrictlyDecreasing
    ELSE SameForEverySize

\* the thirteen copper sizes at 100 A, 480 V, 100 ft in EMT and a power
\* factor of 0.8: thirteen drops, each below the one before
C16_Witness ==
    /\ pc = "done"
    /\ args.current_A = 100 /\ args.voltage_ll_V = 480 /\ args.length_ft = 100
    /\ args.pf = 8 /\ args.material = "Cu" /\ args.sizes = SizeOrder
    /\ Len(results) = Len(SizeOrder)
    /\ StrictlyDecreasing
    /\ DropLess(results[Len(SizeOrder)], results[1])

---------------------------------------------------------------------------
(* nec.ampacity_adjusted over the sizes of the 310.16 table                *)
(* The table file is data outside the code: the table of one material and  *)
(* insulation is an argument here, a column of ampacities (in amperes, in  *)
(* the order of SizeOrder) for each of the temperature columns 60, 75, 90. *)

SizeIndex(size_awg) == CHOOSE k \in 1..Len(SizeOrder) : SizeOrder[k] = size_awg

\* ampacity_base, lines 121-136, once the table of the material and
\* insulation is selected: None where it raises TableLookupError
AmpacityBaseIn(table, size_awg, temp_C) ==
    LET column == table[TemperatureColumn(temp_C)]
    IN IF SizeIndex(size_awg) > Len(column) THEN None
       ELSE Some(column[SizeIndex(size_awg)])

\* terminal_temperature_limit
TerminalTemperatureLimit(temp_C) == IF IsNone(temp_C) THEN 75 ELSE TemperatureColumn(Val(temp_C))

\* a variant that takes the terminal limit of the first size of the table
AmpacityAdjustedFirstSizeLimit(a, size_awg) ==
    LET base == AmpacityBaseIn(a.table, size_awg, a.temp_C)
        amb == AmbientCorrectionFactor(a.temp_C, a.ambient_C, a.rooftop_height_in)
        bundling == ConductorCorrectionFactor(a.ccc)
        terminal_limit ==
            AmpacityBaseIn(a.table, SizeOrder[1], TerminalTemperatureLimit(a.term_temp_C))
        sets == IF a.parallel_sets > 1 THEN a.parallel_sets ELSE 1
    IN IF IsNone(base) \/ IsNone(terminal_limit) THEN None
       ELSE LET derated == Val(base) * amb * bundling
                limit == Val(terminal_limit) * 1000
            IN Some((IF derated < limit THEN derated ELSE limit) * sets)

\* ampacity_adjusted, lines 174-190, in thousandths of an ampere; None where
\* a lookup raises TableLookupError
AmpacityAdjustedAt(a, size_awg) ==
    LET base == AmpacityBaseIn(a.table, size_awg, a.temp_C)
        amb == AmbientCorrectionFactor(a.temp_C, a.ambient_C, a.rooftop_height_in)
        bundling == ConductorCorrectionFactor(a.ccc)
        terminal_limit ==
            AmpacityBaseIn(a.table, size_awg, TerminalTemperatureLimit(a.term_temp_C))
        sets == IF a.parallel_sets > 1 THEN a.parallel_sets ELSE 1
    IN IF IsNone(base) \/ IsNone(terminal_limit) THEN None
       ELSE LET derated == Val(base) * amb * bundling
                limit == Val(terminal_limit) * 1000
            IN Some((IF derated < limit THEN derated ELSE limit) * sets)

\* the call for the next size of the list returns
AA_Call ==
    /\ pc = "start"
    /\ Len(results) < Len(args.sizes)
    /\ AmpacityAdjustedAt(args, args.sizes[Len(results) + 1]) # None
    /\ results' = Append(results, Val(AmpacityAdjustedAt(args, args.sizes[Len(results) + 1])))
    /\ UNCHANGED <<graphVars, pc, lcVars, valVars, vdVars, tapVars, cliVars, sccVars, args>>

\* the call for the next size raises TableLookupError
AA_TableLookupError ==
    /\ pc = "start"
    /\ Len(results) < Len(args.sizes)
    /\ AmpacityAdjustedAt(args, args.sizes[Len(results) + 1]) = None
    /\ pc' = "TableLookupError"
    /\ UNCHANGED <<graphVars, lcVars, valVars, vdVars, tapVars, cliVars, sccVars, args,
                   results>>

\* every size of the list has its ampacity
AA_Done ==
    /\ pc = "start"
    /\ Len(results) = Len(args.sizes)
    /\ pc' = "done"
    /\ UNCHANGED <<graphVars, lcVars, valVars, vdVars, tapVars, cliVars, sccVars, args,
                   results>>

NextAmpacity == AA_Call \/ AA_TableLookupError \/ AA_Done

\* the twelve sizes #3 ... 500 of test_monotonicity.py
AmpacitySizes == SubSeq(SizeOrder, 1, 12)

\* the characters of the twelve sizes, as AMPACITY_TABLE spells them
SizeChars ==
    <<<<"#", "3">>, <<"#", "2">>, <<"#", "1">>, <<"1", "/", "0">>, <<"2", "/", "0">>,
      <<"3", "/", "0">>, <<"4", "/", "0">>, <<"2", "5", "0">>, <<"3", "0", "0">>,
      <<"3", "5", "0">>, <<"4", "0", "0">>, <<"5", "0", "0">>>>

\* columns that rise strictly with the size: the copper and the aluminium
\* column of AMPACITY_TABLE, a column that rises by 1 A per size and one that
\* rises by 40 A per size (they cross the other two), and the copper column
\* cut off after 4/0
AmpacityColumns ==
    {[k \in 1..12 |-> AMPACITY_TABLE.Cu[SizeChars[k]]],
     [k \in 1..12 |-> AMPACITY_TABLE.Al[SizeChars[k]]],
     [k \in 1..12 |-> 119 + k],
     [k \in 1..12 |-> 40 + 40 * k],
     [k \in 1..7 |-> AMPACITY_TABLE.Cu[SizeChars[k]]]}

AmpacityTables ==
    {(60 :> c60) @@ (75 :> c75) @@ (90 :> c90) :
        c60 \in AmpacityColumns, c75 \in AmpacityColumns, c90 \in AmpacityColumns}

AmpacityArgs ==
    [table : AmpacityTables, temp_C : {60, 75, 90}, ambient_C : {None, Some(38), Some(50)},
     rooftop_height_in : {None, Some(6)}, ccc : {3, 5, 10},
     term_temp_C : {None, Some(60), Some(90)}, parallel_sets : {0, 2}, sizes : {AmpacitySizes}]

InitAmpacity ==
    /\ NoGraph
    /\ pc = "start"
    /\ InitAnalysis
    /\ args \in AmpacityArgs

SpecAmpacity == InitAmpacity /\ [][NextAmpacity]_vars

---------------------------------------------------------------------------
(* Round trip of a loaded graph through BaseModel.dict and parse_obj       *)

\* documents with schedules, provenance, amendments given as text, ids and
\* circuit numbers given as numbers, and text where a number is expected
RawProvenance ==
    PyDict([source_id |-> PyInt(3), page |-> PyFloat(15),
            bbox |-> PyList(<<PyInt(1), PyStr(<<"2">>)>>), confidence |-> PyStr(<<"x">>)])

RawSchedules ==
    PyList(<<PyDict([panel_id |-> Chars("A"),
                     entries |-> PyList(<<PyDict([ckt |-> PyInt(1), desc |-> PyNone,
                                                  kVA |-> PyStr(<<"5">>),
                                                  continuous |-> PyInt(0)])>>)])>>)

RoundTripExtras ==
    {PyDict([project |-> PyDict([name |-> PyInt(5),
                                 code |-> PyDict([nec_year |-> PyStr(<<"2", "0">>),
                                                  jurisdiction |-> PyNone,
                                                  amendments |-> Chars("ab")])]),
             analysis_flags |-> PyDict(EmptyDict),
             nodes |-> PyList(<<PyDict([id |-> PyInt(7), type |-> Chars("panel"),
                                        name |-> n, provenance |-> p])>>),
             edges |-> es, panel_schedules |-> RawSchedules]) :
        n \in {PyNone, Chars("A")}, p \in {PyNone, RawProvenance, PyInt(1)},
        es \in RawEdgeLists}

RoundTripDocuments == Documents \cup RoundTripExtras

\* load_project_graph: the document is valid
RT_Load ==
    /\ pc = "start"
    /\ ~ParseObj("ProjectGraph", data).raised
    /\ project_graph' = ParseObj("ProjectGraph", data).value
    /\ pc' = "loaded"
    /\ UNCHANGED <<graphVars, lcVars, valVars, vdVars, tapVars, sccVars, args, data,
                   exit_code, results>>

\* load_project_graph raises: there is no graph to dump
RT_Invalid ==
    /\ pc = "start"
    /\ ParseObj("ProjectGraph", data).raised
    /\ pc' = "ValidationError"
    /\ UNCHANGED <<graphVars, lcVars, valVars, vdVars, tapVars, sccVars, args, cliVars,
                   results>>

\* graph.dict(by_alias=...)
RT_Dump ==
    /\ pc = "loaded"
    /\ \E by_alias \in BOOLEAN : data' = Dict(project_graph, by_alias)
    /\ pc' = "dumped"
    /\ UNCHANGED <<graphVars, lcVars, valVars, vdVars, tapVars, sccVars, args,
                   project_graph, exit_code, results>>

\* ProjectGraph.parse_obj(dump)
RT_Parse ==
    /\ pc = "dumped"
    /\ results' = ParseObj("ProjectGraph", data)
    /\ pc' = "done"
    /\ UNCHANGED <<graphVars, lcVars, valVars, vdVars, tapVars, sccVars, args, cliVars>>

NextRoundTrip == RT_Load \/ RT_Invalid \/ RT_Dump \/ RT_Parse

InitRoundTrip ==
    /\ pc = "start"
    /\ data \in RoundTripDocuments
    /\ NoGraph
    /\ base_loads = <<>> /\ indegree = <<>> /\ queue = <<>> /\ order = <<>>
    /\ pending = <<>> /\ aggregated = <<>>
    /\ issues = <<>> /\ vidx = 1
    /\ per_edge = <<>> /\ per_path = <<>> /\ memo = <<>> /\ stack = <<>> /\ node_idx = 1
    /\ rows = <<>> /\ edge_idx = 1
    /\ results = <<>>
    /\ project_graph = <<>> /\ exit_code = <<>>
    /\ z_map = <<>> /\ seen_edges = {} /\ args = <<>>

SpecRoundTrip == InitRoundTrip /\ [][NextRoundTrip]_vars

\* C18: parsing the dump of a loaded graph, written with aliases or with
\* field names, succeeds and gives a graph whose every field, nested models
\* included, equals the field of the loaded graph
C18_ParseOfDumpIsTheGraph ==
    pc = "done" => ~results.raised /\ results.value = project_graph

\* a graph with a fused and cabled feeder, dumped under the field name from_
\* and parsed back
C18_Witness ==
    /\ pc = "done"
    /\ Len(project_graph.f.edges.items) = 1
    /\ "from_" \in DOMAIN data.d.edges.items[1].d
    /\ project_graph.f.edges.items[1].f.from_ = Chars("A")
    /\ project_graph.f.edges.items[1].f.ocpd.py = "model"
    /\ project_graph.f.edges.items[1].f.cable.py = "model"
    /\ Len(project_graph.f.nodes.items) = 2
    /\ results.value.f.edges = project_graph.f.edges

---------------------------------------------------------------------------
(* ee_mvp/run.py: _Calculator._topological_order                           *)

\* lines 66-68: self.children[node_id], the targets of the edges leaving it
CalcChildren(node_id) ==
    LET out == ChildEdges(node_id)
    IN [k \in 1..Len(out) |-> out[k].to_id]

\* lines 73-75: 0 for every node, plus len(parents) for every id an edge
\* enters, node or not
CalcIndegree ==
    [id \in NodeIdSet \cup {edges[i].to_id : i \in 1..Len(edges)} |->
        Cardinality({i \in 1..Len(edges) : edges[i].to_id = id})]

\* line 76: the ids of indegree zero, in dict order
CalcQueue == SelectSeq(NodeIds, LAMBDA id : CalcIndegree[id] = 0)

\* lines 73-77
TO_Start ==
    /\ pc = "start"
    /\ indegree' = CalcIndegree
    /\ queue' = CalcQueue
    /\ order' = <<>>
    /\ pc' = "kahn"
    /\ UNCHANGED <<graphVars, valVars, vdVars, tapVars, cliVars, sccVars, args, base_loads,
                   pending, aggregated, results>>

\* lines 78-84: one pass of the while loop
TO_Pop ==
    /\ pc = "kahn"
    /\ queue # <<>>
    /\ LET node_id == Head(queue)
           st == Relax([indegree |-> indegree, queue |-> Tail(queue)], CalcChildren(node_id))
       IN /\ order' = Append(order, node_id)
          /\ indegree' = st.indegree
          /\ queue' = st.queue
    /\ UNCHANGED <<graphVars, valVars, vdVars, tapVars, cliVars, sccVars, args, base_loads,
                   pending, aggregated, results, pc>>

\* line 85
TO_Return ==
    /\ pc = "kahn"
    /\ queue = <<>>
    /\ results' = order
    /\ pc' = "done"
    /\ UNCHANGED <<graphVars, valVars, vdVars, tapVars, cliVars, sccVars, args, lcVars>>

NextOrder == TO_Start \/ TO_Pop \/ TO_Return

\* two or three nodes and up to MaxEdges edges among them and the unknown
\* id "X"
InitOrder ==
    /\ nodes \in {<<SccNode("A", None, None, None, None), SccNode("B", None, None, None, None)>>,
                  <<SccNode("S", None, None, None, None), SccNode("A", None, None, None, None),
                    SccNode("B", None, None, None, None)>>}
    /\ edges \in SeqsUpTo({TapEdge(f, t, None, None) : f, t \in NodeIdSet \cup {"X"}}, MaxEdges)
    /\ panel_schedules = <<>>
    /\ DefaultContext
    /\ InitWork

SpecOrder == InitOrder /\ [][NextOrder]_vars

\* the nodes no edge enters
Roots == {n \in NodeIdSet : \A i \in 1..Len(edges) : edges[i].to_id # n}

Position(s, x) == CHOOSE k \in 1..Len(s) : s[k] = x

HasCycleOfEdges == \E p \in FaultPairs : p[1] \in Closure({p[2]}, FaultPairs)

\* each node at most once, the nodes without incoming edge first, and the
\* source of an edge before its target
OrderIsTopological(ord) ==
    /\ \A n \in NodeIdSet : Cardinality({k \in 1..Len(ord) : ord[k] = n}) <= 1
    /\ Len(ord) >= Cardinality(Roots)
    /\ Range(SubSeq(ord, 1, Cardinality(Roots))) = Roots
    /\ \A i \in 1..Len(edges) :
          edges[i].from_id \in Range(ord) /\ edges[i].to_id \in Range(ord)
             => Position(ord, edges[i].from_id) < Position(ord, edges[i].to_id)

\* C19 for _Calculator._topological_order: the returned order is
\* topological and holds every node exactly when the graph has no cycle
C19_KahnOrderComplete ==
    pc = "done" =>
        /\ OrderIsTopological(results)
        /\ NodeIdSet \subseteq Range(results) <=> ~HasCycleOfEdges

\* what the code does give: when the source of every edge is a node, the
\* order is topological and holds every node exactly when there is no cycle
C19_CompleteWhenSourcesKnown ==
    pc = "done" /\ (\A i \in 1..Len(edges) : edges[i].from_id \in NodeIdSet) =>
        /\ OrderIsTopological(results)
        /\ NodeIdSet \subseteq Range(results) <=> ~HasCycleOfEdges

---------------------------------------------------------------------------
(* available_fault on graphs with up to MaxPathEdges feeders below one      *)
(* seeded service                                                           *)

MaxPathEdges == 4

InitPaths ==
    /\ nodes = <<SccNode("S", Some(480), None, None, Some(30)),
                 SccNode("A", Some(480), None, None, None),
                 SccNode("B", Some(208), None, None, None),
                 SccNode("C", None, Some(480), Some(208), None)>>
    /\ edges \in SeqsUpTo(FaultEdges, MaxPathEdges)
    /\ panel_schedules = <<>>
    /\ DefaultContext
    /\ InitWork

SpecPaths == InitPaths /\ [][NextFault]_vars

\* the impedance of the edge's source in z_map plus the edge's own impedance
ThroughEdge(edge) ==
    Complex(z_map[edge.from_id].r + Val(EdgeImpedance(edge)).r,
            z_map[edge.from_id].x + Val(EdgeImpedance(edge)).x)

\* the final impedance of every non-seeded bus of the result comes over one
\* of the edges that enter the bus
ImpedanceMatchesAnIncomingEdge ==
    \A id \in Buses(results) \ SeededIds :
        \E i \in 1..Len(edges) :
            /\ edges[i].to_id = id
            /\ edges[i].from_id \in DOMAIN z_map
            /\ EdgeImpedance(edges[i]) # None
            /\ z_map[id] = ThroughEdge(edges[i])

(* C20: after available_fault has propagated the impedances, every          *)
(* non-seeded node with a result holds the final impedance of the upstream  *)
(* node of one of its incoming edges plus that edge's series impedance, on  *)
(* every graph, also where a node is reached over several paths.            *)
C20_ImpedanceMatchesAnIncomingEdge == pc = "done" => ImpedanceMatchesAnIncomingEdge

\* the same on the graphs without a cycle only
C20_ImpedanceMatchesWithoutCycle ==
    pc = "done" /\ ~HasCycleOfEdges => ImpedanceMatchesAnIncomingEdge

\* the same on the graphs where every edge leads to a bus no other edge enters
C20_ImpedanceMatchesOnTrees ==
    pc = "done" /\ (\A i, j \in 1..Len(edges) : edges[i].to_id = edges[j].to_id => i = j)
                /\ ~HasCycleOfEdges
        => ImpedanceMatchesAnIncomingEdge

---------------------------------------------------------------------------
(* ee_mvp/run.py: _Calculator.total_voltage_drop; args holds edge_df, the   *)
(* frame of edge_checks, with vd_pct in thousandths of a percent            *)

\* lines 138-141: edge_checks has a row for the edges with a sized cable only
HasEdgeRow(edge) == ~IsNone(edge.cable) /\ Val(edge.cable).size_awg # ""

\* lines 212-214: vd_map.get((from, to), 0.0); a later row of the same key
\* replaces an earlier one
VdMapGet(edge_df, from_id, to_id) ==
    LET ks == {k \in 1..Len(edge_df) : edge_df[k].from = from_id /\ edge_df[k].to = to_id}
    IN IF ks = {} THEN 0 ELSE edge_df[SetMax(ks)].vd_pct

RECURSIVE TotalsOfChildren(_, _, _, _)
\* lines 217-218: the loop over the children of node_id
TotalsOfChildren(totals, edge_df, node_id, children) ==
    IF children = <<>> THEN totals
    ELSE TotalsOfChildren(
            Put(totals, Head(children),
                totals[node_id] + VdMapGet(edge_df, node_id, Head(children))),
            edge_df, node_id, Tail(children))

RECURSIVE TotalsOver(_, _, _)
\* lines 216-218: the loop over the topological order
TotalsOver(totals, edge_df, ord) ==
    IF ord = <<>> THEN totals
    ELSE TotalsOver(TotalsOfChildren(totals, edge_df, Head(ord), CalcChildren(Head(ord))),
                    edge_df, Tail(ord))

\* line 211 and lines 215-218: totals after the loops
Totals(edge_df, ord) == TotalsOver([id \in NodeIdSet |-> 0], edge_df, ord)

\* self.config.get("vd_total_pct", 5.0), in thousandths of a percent
VdTotalLimit == 5000

\* lines 221-226: the record of a node, none for a node without voltage
TotalRecord(totals, node) ==
    IF ~TruthyNumber(OrElse(node.voltage_ll_V, OrElse(node.sec_V, node.pri_V))) THEN <<>>
    ELSE <<[bus |-> node.id,
            total_vd_pct |-> Get(totals, node.id, 0),
            vd_total_ok |-> Get(totals, node.id, 0) <= VdTotalLimit]>>

\* lines 210-227, after _topological_order has returned
TVD_Return ==
    /\ pc = "kahn"
    /\ queue = <<>>
    /\ results' = LET totals == Totals(args, order)
                  IN Flatten([i \in 1..Len(nodes) |-> TotalRecord(totals, nodes[i])])
    /\ pc' = "done"
    /\ UNCHANGED <<graphVars, valVars, vdVars, tapVars, cliVars, sccVars, args, lcVars>>

NextTotal == TO_Start \/ TO_Pop \/ TVD_Return

MaxDropEdges == 3

\* the drops edge_checks may report
DropValues == {1000, 2500}

DropNodeLists ==
    {<<SccNode("S", Some(480), None, None, None), SccNode("A", Some(480), None, None, None), b>> :
        b \in {SccNode("B", None, Some(480), Some(208), None),
               SccNode("B", None, None, None, None)}}

DropEdges ==
    {e \in {TapEdge(f, t, None, None) : f, t \in {"S", "A", "B"}}
            \cup {Feeder(f, t, "#1", 1, "EMT", 100) : f, t \in {"S", "A", "B"}} :
        e.from_id # e.to_id}

\* the frames with one row for each edge that has a cable, in edge order
RECURSIVE EdgeFrames(_)
EdgeFrames(es) ==
    IF es = <<>> THEN {<<>>}
    ELSE IF ~HasEdgeRow(Head(es)) THEN EdgeFrames(Tail(es))
    ELSE {<<[from |-> Head(es).from_id, to |-> Head(es).to_id, vd_pct |-> v]>> \o rest :
             v \in DropValues, rest \in EdgeFrames(Tail(es))}

InitTotal ==
    /\ nodes \in DropNodeLists
    /\ edges \in SeqsUpTo(DropEdges, MaxDropEdges)
    /\ panel_schedules = <<>>
    /\ DefaultContext
    /\ pc = "start"
    /\ InitAnalysis
    /\ args \in EdgeFrames(edges)

SpecTotal == InitTotal /\ [][NextTotal]_vars

\* the rows of edge_df for the edges from from_id to to_id
DropsOfEdge(from_id, to_id) ==
    {args[k].vd_pct : k \in {j \in 1..Len(args) : args[j].from = from_id /\ args[j].to = to_id}}

\* the drops along the edges (u, node_id): those of the rows, 0 for an edge
\* without a row
IncomingTotals(totals, node_id) ==
    UNION {IF HasEdgeRow(edges[i])
           THEN {totals[edges[i].from_id] + d : d \in DropsOfEdge(edges[i].from_id, node_id)}
           ELSE {totals[edges[i].from_id]} :
           i \in {j \in 1..Len(edges) : edges[j].to_id = node_id}}

WorstCasePath(totals) ==
    \A k \in 1..Len(results) :
        results[k].total_vd_pct
            = IF IncomingTotals(totals, results[k].bus) = {} THEN 0
              ELSE SetMax(IncomingTotals(totals, results[k].bus))

(* C21: on an acyclic graph total_voltage_drop gives each node the maximum  *)
(* over its incoming edges (u, node) of total_vd_pct(u) plus the drop of    *)
(* that edge, and 0 to a node without incoming edge; a node fed by several  *)
(* edges reports the worst-case path, whatever the order of the edges.      *)
C21_TotalIsWorstCasePath ==
    pc = "done" /\ ~HasCycleOfEdges => WorstCasePath(Totals(args, order))

\* the same on the graphs where at most one edge enters a node
C21_TotalOnSingleFedNodes ==
    pc = "done" /\ ~HasCycleOfEdges
                /\ (\A i, j \in 1..Len(edges) : edges[i].to_id = edges[j].to_id => i = j)
        => WorstCasePath(Totals(args, order))

---------------------------------------------------------------------------
(* nec._temperature_column over the integer ratings up to MaxRating         *)

\* lines 116-119: _temperature_column of an Optional rating
TemperatureColumnOf(temp_C) == IF IsNone(temp_C) THEN 75 ELSE TemperatureColumn(Val(temp_C))

TC_Call ==
    /\ pc = "start"
    /\ results' = TemperatureColumnOf(args.temp_C)
    /\ pc' = "done"
    /\ UNCHANGED <<graphVars, lcVars, valVars, vdVars, tapVars, cliVars, sccVars, args>>

NextColumn == TC_Call

MaxRating == 120

InitColumn ==
    /\ NoGraph
    /\ pc = "start"
    /\ InitAnalysis
    /\ args \in [temp_C : {None} \cup {Some(t) : t \in 0..MaxRating}]

SpecColumn == InitColumn /\ [][NextColumn]_vars

StandardColumns == {60, 75, 90}

\* the largest standard column that does not exceed the rating, 75 for no
\* rating
NearestNotExceeding ==
    IF IsNone(args.temp_C) THEN results = 75
    ELSE /\ results \in StandardColumns
         /\ results <= Val(args.temp_C)
         /\ \A c \in StandardColumns : c <= Val(args.temp_C) => c <= results

(* C22: _temperature_column maps every rating to the largest column of      *)
(* {60, 75, 90} that does not exceed the rating, and no rating to 75; the   *)
(* column is never greater than the rating.                                 *)
C22_ColumnNeverExceedsRating == pc = "done" => NearestNotExceeding

\* the same for the ratings of at least 60
C22_ColumnFromSixtyUp ==
    pc = "done" /\ (IsNone(args.temp_C) \/ Val(args.temp_C) >= 60) => NearestNotExceeding

---------------------------------------------------------------------------
(* nec.upsized_equipment_ground; the up-sizing factor is in hundredths and  *)
(* base is what equipment_ground_size returned from the table file, a size  *)
(* of the list                                                              *)

\* lines 249-269: order
EgcOrder ==
    <<"#14", "#12", "#10", "#8", "#6", "#4", "#3", "#2", "#1", "1/0", "2/0", "3/0", "4/0",
      "250", "300", "350", "400", "500", "600">>

EgcIndex(size_awg) == CHOOSE k \in 1..Len(EgcOrder) : EgcOrder[k] = size_awg

Min(a, b) == IF a < b THEN a ELSE b

\* lines 246-275, after equipment_ground_size has returned base
UpsizedEquipmentGround(base, conductor_upsizing_factor) ==
    IF conductor_upsizing_factor <= 105 THEN base
    ELSE IF base \notin Range(EgcOrder) THEN base
    ELSE LET bump == IF conductor_upsizing_factor < 135 THEN 1 ELSE 2
         IN EgcOrder[Min(EgcIndex(base) + bump, Len(EgcOrder))]

UEG_Call ==
    /\ pc = "start"
    /\ results' = UpsizedEquipmentGround(args.base, args.conductor_upsizing_factor)
    /\ pc' = "done"
    /\ UNCHANGED <<graphVars, lcVars, valVars, vdVars, tapVars, cliVars, sccVars, args>>

NextGround == UEG_Call

MinFactor == 95
MaxFactor == 145

InitGround ==
    /\ NoGraph
    /\ pc = "start"
    /\ InitAnalysis
    /\ args \in [base : Range(EgcOrder), conductor_upsizing_factor : MinFactor..MaxFactor]

SpecGround == InitGround /\ [][NextGround]_vars

\* the base size for a factor up to 1.05, one step up the list for a factor
\* up to 1.35 and two steps above that, not beyond the last size
StepsOfTheFactor ==
    LET idx == EgcIndex(args.base)
        factor == args.conductor_upsizing_factor
        steps == IF factor <= 105 THEN 0 ELSE IF factor <= 135 THEN 1 ELSE 2
    IN /\ results = EgcOrder[Min(idx + steps, Len(EgcOrder))]
       /\ EgcIndex(results) >= idx

(* C23: upsized_equipment_ground returns the base size when the factor does *)
(* not exceed 1.05, the size one step up the list when it exceeds 1.05 but  *)
(* not 1.35, and the size two steps up when it exceeds 1.35, clamped to the *)
(* last entry of the list and never smaller than the base size.             *)
C23_StepsFollowTheFactor == pc = "done" => StepsOfTheFactor

\* the same away from the factor 1.35 itself
C23_StepsAwayFromThreshold ==
    pc = "done" /\ args.conductor_upsizing_factor # 135 => StepsOfTheFactor

---------------------------------------------------------------------------
(* C24: for every tap edge passes_25ft is true exactly when the cable       *)
(* length is at most 25 ft and the adjusted ampacity is at least one third  *)
(* of the rating of the OCPD on that edge; without OCPD, or with a rating   *)
(* of 0, passes_25ft is false. A cable without length counts as 0 ft, as    *)
(* the row reports it.                                                      *)

\* the rating of the OCPD on the edge, 0 when there is none
SourceRating(edge) == IF IsNone(edge.ocpd) THEN 0 ELSE Val(edge.ocpd).rating_A

TwentyFiveFootCase(edge, row) ==
    /\ row.length_ft <= 25
    /\ SourceRating(edge) # 0
    /\ 3 * row.ampacity_A >= 1000 * SourceRating(edge)

C24_TwentyFiveFootRule ==
    pc \in {"taps", "done"} =>
        /\ Len(rows) <= Len(TapPositions)
        /\ \A k \in 1..Len(rows) :
              LET edge == edges[TapPositions[k]]
              IN /\ rows[k].length_ft = OrZero(Val(edge.cable).length_ft)
                 /\ rows[k].ampacity_A = Val(AmpacityAdjusted(Val(edge.cable)))
                 /\ rows[k].passes_25ft <=> TwentyFiveFootCase(edge, rows[k])
                 /\ SourceRating(edge) = 0 => ~rows[k].passes_25ft

\* a 25 ft tap of 130 A behind a 390 A breaker passes, next to it in other
\* runs the same tap at 26 ft and the same tap behind 400 A fail
C24_Witness ==
    /\ pc = "done"
    /\ \E k \in 1..Len(results) :
          LET edge == edges[TapPositions[k]]
          IN /\ Val(edge.cable).length_ft = Some(25)
             /\ SourceRating(edge) = 390
             /\ results[k].ampacity_A = 130000
             /\ results[k].passes_25ft /\ ~results[k].passes_10ft /\ results[k].passes

---------------------------------------------------------------------------
(* Inputs of the phase check: nodes A and B with varied phases, up to       *)
(* MaxPhaseEdges bare edges among A, B and the unknown id X                 *)

MaxPhaseEdges == 2

PhaseTexts == {None, Some(""), Some("A"), Some("AB"), Some("CA"), Some("ABC"), Some("ab")}

InitPhases ==
    /\ nodes \in {<<Node("A", "panel", Some(208), up, None, None, None),
                    Node("B", "panel", Some(208), down, None, None, None)>> :
                     up \in PhaseTexts, down \in PhaseTexts}
    /\ edges \in SeqsUpTo(BareEdges({"A", "B", "X"}), MaxPhaseEdges)
    /\ panel_schedules = <<>>
    /\ DefaultContext
    /\ InitWork

SpecPhases == InitPhases /\ [][NextValidate]_vars

(* C25: VoltagePhaseValidator emits one PHASE_INCOMPATIBLE issue, an ERROR, *)
(* for an edge exactly when both endpoint nodes exist, both declare phases  *)
(* and the downstream phase letters are not a subset of the upstream ones;  *)
(* an edge with a missing endpoint or missing phases has no phase issue. A  *)
(* node declares phases when its phases text holds at least one letter.     *)

\* the positions in iss of the phase issues of the edge at i
PhaseIssues(iss, i) ==
    {k \in 1..Len(iss) :
        iss[k].code = "PHASE_INCOMPATIBLE" /\ iss[k].path = Path("edges", Some(i - 1), "")}

DeclaresPhases(node) == ~IsNone(node.phases) /\ Val(node.phases) # ""

Letters(node) == Range(Text(Val(node.phases)))

PhasesIncompatible(i) ==
    /\ edges[i].from_ \in NodeIdSet /\ edges[i].to \in NodeIdSet
    /\ DeclaresPhases(NodeOf(edges[i].from_)) /\ DeclaresPhases(NodeOf(edges[i].to))
    /\ \E letter \in Letters(NodeOf(edges[i].to)) : letter \notin Letters(NodeOf(edges[i].from_))

C25_PhaseIssueIffNotSubset ==
    vidx > 2 =>
        /\ \A i \in 1..Len(edges) :
              /\ Cardinality(PhaseIssues(issues, i)) = IF PhasesIncompatible(i) THEN 1 ELSE 0
              /\ \A k \in PhaseIssues(issues, i) : issues[k].severity = "ERROR"
        /\ \A k \in 1..Len(issues) :
              issues[k].code = "PHASE_INCOMPATIBLE" => \E i \in 1..Len(edges) : k \in PhaseIssues(issues, i)

\* an edge from AB to CA with its issue, next to an edge from the unknown X
\* without one
C25_Witness ==
    /\ vidx > 2
    /\ Len(edges) = 2
    /\ PhasesIncompatible(1)
    /\ NodeOf(edges[1].from_).phases = Some("AB") /\ NodeOf(edges[1].to).phases = Some("CA")
    /\ Cardinality(PhaseIssues(issues, 1)) = 1
    /\ edges[2].from_ = "X"
    /\ PhaseIssues(issues, 2) = {}

---------------------------------------------------------------------------
(* Inputs of the voltage drop with missing data: the graphs of SpecVD with  *)
(* no load results at all, with no entry for C, and with no current for A   *)

SparseLoadResults ==
    {<<>>,
     "A" :> Amps(Some(10)),
     ("S" :> Amps(Some(30))) @@ ("A" :> Amps(None)) @@ ("C" :> Amps(Some(10)))}

InitVDSparse ==
    /\ nodes \in VDNodeLists
    /\ edges \in VDEdgeLists
    /\ panel_schedules = <<>>
    /\ load_results \in SparseLoadResults
    /\ analysis_flags = AnalysisFlags(load_results # <<>>, TRUE, FALSE)
    /\ short_circuit = None
    /\ load_currents = <<>>
    /\ InitWork

SpecVDSparse == InitVDSparse /\ [][NextVD]_vars

(* C26: run_voltage_drop never raises because of missing optional data: an  *)
(* edge with no cable, no length, an unrecognised size, no resistance entry *)
(* or no known downstream current (also with empty load_results) gets       *)
(* V_drop = None and pct = None, and counts as zero drop in the per-path    *)
(* accumulation.                                                            *)

\* the edge lacks something the drop is computed from
LacksData(edge) ==
    \/ IsNone(edge.cable)
    \/ IsNone(Val(edge.cable).length_ft)
    \/ IsNone(NormalizeSize(Val(edge.cable).size_awg))
    \/ Val(NormalizeSize(Val(edge.cable).size_awg))
          \notin DOMAIN RESISTANCE_OHMS_PER_1000FT[Val(edge.cable).conductor]
    \/ edge.to \notin DOMAIN load_results
    \/ IsNone(load_results[edge.to].I_A)

\* the drops that reach node_id over its incoming edges, an edge without
\* V_drop adding nothing to the drop of its upstream node
DropsInto(node_id) ==
    {memo[edges[i].from_].V_drop + (IF per_edge[i].V_drop = None THEN 0 ELSE Val(per_edge[i].V_drop)) :
        i \in {j \in 1..Len(edges) : edges[j].to = node_id}}

---------------------------------------------------------------------------
(* C27: the breadth-first propagation of available_fault terminates on      *)
(* every finite graph, also with cycles and with nodes reached over several *)
(* paths, because each edge key (from, to) is traversed at most once: every *)
(* pass of the loop takes one id off the queue and puts one id on it for    *)
(* each key it adds to seen, so the rank below falls with every step.       *)

FaultRank ==
    CASE pc = "start" -> Len(nodes) + 2 * Cardinality(FaultPairs) + 2
      [] pc = "bfs"   -> Len(queue) + 2 * Cardinality(FaultPairs \ seen_edges) + 1
      [] pc \in {"done", "TableLookupError"} -> 0

C27_Bounded ==
    /\ seen_edges \subseteq FaultPairs
    /\ FaultRank >= 0
    /\ FaultRank = 0 <=> pc \in {"done", "TableLookupError"}

\* a pass of the loop: one id leaves the queue, one enters for each new key
C27_OncePerKey ==
    pc = "bfs" /\ pc' = "bfs" =>
        /\ seen_edges \subseteq seen_edges'
        /\ Len(queue') = Len(queue) - 1 + Cardinality(seen_edges' \ seen_edges)

C27_PropagationTerminates ==
    [][FaultRank' < FaultRank /\ C27_OncePerKey]_vars /\ [](C27_Bounded)

\* the propagation has returned on a graph with a cycle where A is reached
\* over S -> A and over S -> B -> A
C27_Witness ==
    /\ pc = "done"
    /\ HasCycleOfEdges
    /\ {<<"S", "A">>, <<"S", "B">>, <<"B", "A">>} \subseteq seen_edges
    /\ Cardinality(seen_edges) = 4
---------------------------------------------------------------------------
(* C28: where the demand of a panel-schedule entry is counted              *)

\* the entries of all schedules, as pairs <<schedule index, entry index>>
EntryPositions ==
    UNION {{<<s, e>> : e \in 1..Len(panel_schedules[s].entries)} :
              s \in 1..Len(panel_schedules)}

EntryAt(p) == panel_schedules[p[1]].entries[p[2]]

PanelAt(p) == panel_schedules[p[1]].panel_id

\* the id an entry is counted under: the child of the panel with the least
\* position in edge order among those the entry names, else the panel
CountedUnder(p) ==
    LET kids == Children(PanelAt(p))
        named == {i \in 1..Len(kids) : NamedIn(kids[i], EntryAt(p))}
    IN IF named = {} THEN PanelAt(p)
       ELSE kids[CHOOSE i \in named : \A j \in named : i <= j]

EntryDemands == [p \in EntryPositions |-> EntryDemand(EntryAt(p))]

OwnDemands == [id \in NodeIdSet |-> OwnDemand(id)]

\* C28: every entry with a nonzero value is counted in the base demand of
\* exactly one id, the first child of the panel in edge order that the
\* entry's description or circuit text names, else the panel; the base
\* demands add up to the nodes' own loads plus all entry values, continuous
\* entries at 1.25 times their value
C28_EntryCountedOnce ==
    pc # "start" =>
        /\ \A p \in EntryPositions :
              EntryDemands[p] # 0 => CountedUnder(p) \in DOMAIN base_loads
        /\ \A id \in DOMAIN base_loads :
              base_loads[id] =
                 OwnDemand(id) +
                 SumOver(EntryDemands, {p \in EntryPositions : CountedUnder(p) = id})
        /\ SumOver(base_loads, DOMAIN base_loads) =
              SumOver(OwnDemands, NodeIdSet) + SumOver(EntryDemands, EntryPositions)

\* a schedule of panel A with an entry that names both children ab and B,
\* counted under ab, the first of them, and an entry that names no child,
\* counted under A
C28_Witness ==
    /\ pc = "done"
    /\ Children("A") = <<"ab", "B">>
    /\ Len(panel_schedules) = 1
    /\ PanelAt(<<1, 1>>) = "A"
    /\ Len(panel_schedules[1].entries) = 2
    /\ Cardinality({i \in 1..2 : NamedIn(Children("A")[i], EntryAt(<<1, 1>>))}) = 2
    /\ CountedUnder(<<1, 2>>) = "A"
    /\ base_loads["ab"] = 160
    /\ base_loads["B"] = 0
    /\ base_loads["A"] = 40
---------------------------------------------------------------------------
(* C29: the ids run_load_calc returns results for                          *)

\* C29: the result has one entry for every node id of the graph and no entry
\* for any other id, whatever ids the edges and the schedules reference
C29_ResultsForNodesOnly ==
    pc = "done" => DOMAIN results = NodeIdSet

\* every node id has an entry; the other entries are for ids a schedule
\* counts an entry under (lines 100 and 107) or that are the source of an
\* edge into an id with an entry (line 117)
C29_ResultsCoverNodes ==
    pc = "done" =>
        /\ NodeIdSet \subseteq DOMAIN results
        /\ \A id \in DOMAIN results \ NodeIdSet :
              \/ \E p \in EntryPositions : EntryDemands[p] # 0 /\ CountedUnder(p) = id
              \/ \E i \in 1..Len(edges) : edges[i].from_ = id /\ edges[i].to \in NodeIdSet
---------------------------------------------------------------------------
(* nec.ampacity_adjusted over the integer ratings up to MaxRating: the      *)
(* column of the base ampacity and the curve of the ambient correction      *)

\* lines 185-190, keeping the local amb beside the returned ampacity
AR_Call ==
    /\ pc = "start"
    /\ results' = [amb |-> AmbientCorrectionFactor(args.temp_C, args.ambient_C,
                                                   args.rooftop_height_in),
                   adjusted |-> AmpacityAdjustedAt(args, args.size_awg)]
    /\ pc' = "done"
    /\ UNCHANGED <<graphVars, lcVars, valVars, vdVars, tapVars, cliVars, sccVars, args>>

NextRating == AR_Call

\* one size with 100, 120 and 135 A in the columns 60, 75 and 90
RatingTable == (60 :> <<100>>) @@ (75 :> <<120>>) @@ (90 :> <<135>>)

InitRating ==
    /\ NoGraph
    /\ pc = "start"
    /\ InitAnalysis
    /\ args \in [table : {RatingTable},
                 size_awg : {SizeOrder[1]},
                 temp_C : 0..MaxRating,
                 ambient_C : {None, Some(30), Some(35), Some(36), Some(40), Some(45), Some(50)},
                 rooftop_height_in : {None, Some(12), Some(13)},
                 ccc : {3},
                 term_temp_C : {None, Some(90)},
                 parallel_sets : {1}]

SpecRating == InitRating /\ [][NextRating]_vars

\* the correction curve of a standard column: the factor, in hundredths, up
\* to 30, 35 and 40 degrees of ambient temperature and above
CurveOfColumn(column) ==
    CASE column = 60 -> <<100, 88, 82, 71>>
      [] column = 75 -> <<100, 94, 88, 82>>
      [] column = 90 -> <<100, 96, 91, 87>>

\* the ambient temperature the curve is read at: 30 by default, 17 degrees
\* more on a rooftop within 12 inches
EffectiveAmbient ==
    (IF IsNone(args.ambient_C) THEN 30 ELSE Val(args.ambient_C)) +
    (IF ~IsNone(args.rooftop_height_in) /\ Val(args.rooftop_height_in) <= 12 THEN 17 ELSE 0)

FactorOnCurve(curve) ==
    curve[IF EffectiveAmbient <= 30 THEN 1
          ELSE IF EffectiveAmbient <= 35 THEN 2
          ELSE IF EffectiveAmbient <= 40 THEN 3 ELSE 4]

\* the factor and the base ampacity are those of one standard column
SameColumn ==
    LET column == TemperatureColumn(args.temp_C)
    IN /\ results.amb = FactorOnCurve(CurveOfColumn(column))
       /\ results.adjusted =
             Some(Min(RatingTable[column][1] * results.amb * 10,
                      RatingTable[TerminalTemperatureLimit(args.term_temp_C)][1] * 1000))

(* C30: in ampacity_adjusted the ambient-correction curve selected for a    *)
(* conductor temperature rating is the curve of the standard column that    *)
(* the base-ampacity lookup uses for that rating, for every integer rating. *)
C30_CurveOfTheBaseColumn == pc = "done" => SameColumn

\* the same for the ratings up to 60, of 75 and from 90
C30_CurveAtStandardRatings ==
    pc = "done" /\ (args.temp_C <= 60 \/ args.temp_C = 75 \/ args.temp_C >= 90) => SameColumn
====
